---- MODULE Spec2Model ----
(***************************************************************************)
(* Terrakube Terraform provider: the resource handlers (Create, Read,     *)
(* Update, Delete, ImportState) as operations on one managed object.      *)
(*                                                                         *)
(* A Go string is a sequence of atoms: single characters, or a literal    *)
(* that contains no comma written as one atom.  The empty string is <<>>. *)
(* A Terraform state or plan is a function from the attribute names that  *)
(* are set to their values; an attribute that is null is not in the       *)
(* domain, and ValueString of it is the empty string.                     *)
(***************************************************************************)
EXTENDS Integers, Sequences, FiniteSets, TLC

VARIABLES
    kind,     \* the resource type the last handler belongs to
    tf,       \* the Terraform state of the managed object; NoState when absent
    op,       \* the handler that ran last
    prior,    \* the state that handler was given (req.State)
    plan,     \* the plan, or the import identifier, that handler was given
    resps,    \* the server responses that handler consumed, in order
    reqs,     \* the HTTP requests that handler sent, in order
    diag,     \* that handler added an error diagnostic
    crashed   \* that handler panicked

vars == <<kind, tf, op, prior, plan, resps, reqs, diag, crashed>>

(***************************************************************************)
(* Bounds of the model.                                                    *)
(***************************************************************************)
MaxIdLen == 5

MaxListLen == 2

(***************************************************************************)
(* Terraform state and plan values.                                        *)
(***************************************************************************)
NoState == [a \in {} |-> <<>>]

Present(st) == DOMAIN st # {}

\* types.String.ValueString(): the empty string for a null attribute
ValueString(st, a) == IF a \in DOMAIN st THEN st[a] ELSE <<>>

\* tfsdk.State.SetAttribute
SetAttribute(st, a, v) == [x \in (DOMAIN st) \cup {a} |-> IF x = a THEN v ELSE st[x]]

\* the outcome of one handler call
Outcome(k, o, pr, pl, rs, rq, st, d, c) ==
    /\ kind' = k
    /\ op' = o
    /\ prior' = pr
    /\ plan' = pl
    /\ resps' = rs
    /\ reqs' = rq
    /\ tf' = st
    /\ diag' = d
    /\ crashed' = c

Init ==
    /\ kind = "none"
    /\ tf = NoState
    /\ op = "none"
    /\ prior = NoState
    /\ plan = NoState
    /\ resps = <<>>
    /\ reqs = <<>>
    /\ diag = FALSE
    /\ crashed = FALSE

(***************************************************************************)
(* The HTTP exchange.  A request is sent to a path, a sequence of Go       *)
(* strings; the server answers with a transport error, with a body that    *)
(* does not deserialize, or with a JSON:API document.  An attribute that   *)
(* a document may omit is <<>> when omitted and <<x>> when it carries x.   *)
(***************************************************************************)
Lit(s) == <<s>>

Opt(S) == {<<>>} \cup {<<x>> : x \in S}

NoBody == [a \in {} |-> <<>>]

Request(method, path, body) == [method |-> method, path |-> path, body |-> body]

TransportError == [type |-> "transport_error", data |-> NoBody]

BadBody == [type |-> "bad_body", data |-> NoBody]

\* a response whose body the handler does not look at
Answered == [type |-> "answered", data |-> NoBody]

Document(d) == [type |-> "document", data |-> d]

\* a response of which the handler reads the status code only
Replied(code) == [type |-> "status", data |-> [status |-> code]]

\* http.StatusNoContent
StatusNoContent == 204

\* the status codes outside 2xx, 404 apart, that the server answers with
ErrorStatuses == {500}

\* what the server may answer to a DELETE
DeleteReplies == {TransportError} \cup {Replied(c) : c \in {StatusNoContent} \cup ErrorStatuses}

\* jsonapi.UnmarshalPayload of an attribute into a string, a bool and a *bool field
StringAttr(o) == IF o = <<>> THEN <<>> ELSE o[1]

BoolAttr(o) == IF o = <<>> THEN FALSE ELSE o[1]

PointerAttr(o) == o

\* what a handler leaves behind: the state, the diagnostic, the panic, the requests
Result(st, d, c, rq) == [st |-> st, d |-> d, c |-> c, rq |-> rq]

Handled(k, o, pr, pl, rs, res) ==
    Outcome(k, o, pr, pl, rs, res.rq, res.st, res.d, res.c)

\* the identifiers and path keys of the model
ServerIds == {<<"a">>, <<"b">>}

OrgId == <<"o">>

ParentId == <<"p">>

(***************************************************************************)
(* Variables with a sensitive flag: organization variable, workspace      *)
(* variable, collection item.  The three resources differ in their path   *)
(* and in the type of the entity's Sensitive field: *bool for the         *)
(* organization variable, bool for the other two.                         *)
(***************************************************************************)
VarKinds == {"organization_variable", "workspace_variable", "collection_item"}

\* the attribute that holds the parent's id, none for an organization variable
VarParentAttr(k) ==
    IF k = "workspace_variable" THEN {"workspace_id"}
    ELSE IF k = "collection_item" THEN {"collection_id"}
    ELSE {}

\* the plans Terraform hands to Create and Update: every attribute is required
VarPlans(k) ==
    {[a \in {"organization_id", "key", "value", "description", "category",
             "sensitive", "hcl"} \cup VarParentAttr(k) |->
         CASE a = "organization_id" -> OrgId
           [] a = "key" -> <<"k">>
           [] a = "value" -> v
           [] a = "description" -> <<"d">>
           [] a = "category" -> <<"ENV">>
           [] a = "sensitive" -> b
           [] a = "hcl" -> FALSE
           [] OTHER -> ParentId] : v \in {<<"v">>, <<"w">>}, b \in BOOLEAN}

\* the documents of a variable the server may answer with
VarDocuments ==
    [id : ServerIds, key : {<<"k">>}, value : Opt({<<>>, <<"x">>}),
     description : {<<"d">>}, category : {<<"ENV">>},
     sensitive : Opt(BOOLEAN), hcl : {FALSE}]

VarResponses == {TransportError, BadBody} \cup {Document(d) : d \in VarDocuments}

\* fmt.Sprintf of the collection URL
VarCollectionPath(k, st) ==
    <<Lit("api"), Lit("v1"), Lit("organization"), ValueString(st, "organization_id")>> \o
    ( IF k = "organization_variable" THEN <<Lit("globalvar")>>
      ELSE IF k = "workspace_variable"
           THEN <<Lit("workspace"), ValueString(st, "workspace_id"), Lit("variable")>>
      ELSE <<Lit("collection"), ValueString(st, "collection_id"), Lit("item")>> )

VarPath(k, st) == VarCollectionPath(k, st) \o <<ValueString(st, "id")>>

\* the entity's Sensitive field after UnmarshalPayload, as a pointer: nil is <<>>
VarSensitive(k, e) ==
    IF k = "organization_variable" THEN PointerAttr(e.sensitive)
    ELSE <<BoolAttr(e.sensitive)>>

\* the request body of Create: the plan's attributes
VarCreateBody(k, pl) ==
    [key |-> ValueString(pl, "key"), value |-> ValueString(pl, "value"),
     description |-> ValueString(pl, "description"), sensitive |-> <<pl["sensitive"]>>,
     category |-> ValueString(pl, "category"), hcl |-> pl["hcl"]]

\* the request body of Update: the organization variable leaves Sensitive nil,
\* and omitempty drops it from the body
VarUpdateBody(k, pl, st) ==
    [id |-> ValueString(st, "id"),
     key |-> ValueString(pl, "key"), value |-> ValueString(pl, "value"),
     description |-> ValueString(pl, "description"),
     sensitive |-> IF k = "organization_variable" THEN <<>> ELSE <<pl["sensitive"]>>,
     category |-> ValueString(pl, "category"), hcl |-> pl["hcl"]]

ResponseValue(b, local, remote) == remote

\* if b == true the local value is kept, else the response's value is taken
SensitiveValue(b, local, remote) == IF b THEN local ELSE remote

Merge(base, upd) ==
    [x \in (DOMAIN base) \cup (DOMAIN upd) |-> IF x \in DOMAIN upd THEN upd[x] ELSE base[x]]

\* the model the handler persists: base is the plan or the state it started from
VarState(base, e, b, id) ==
    Merge(base,
          [id |-> id, key |-> e.key,
           value |-> SensitiveValue(b, ValueString(base, "value"), StringAttr(e.value)),
           description |-> e.description, category |-> e.category,
           sensitive |-> b, hcl |-> e.hcl])

VariableCreateFromResponse(k, pl, r) ==
    LET rq == <<Request("POST", VarCollectionPath(k, pl), VarCreateBody(k, pl))>>
    IN  IF r.type # "document" THEN Result(NoState, TRUE, FALSE, rq)
        ELSE Result(Merge(VarState(pl, r.data, FALSE, r.data.id),
                          [sensitive |-> BoolAttr(r.data.sensitive)]), FALSE, FALSE, rq)

VariableCreate(k, pl, r) ==
    LET rq == <<Request("POST", VarCollectionPath(k, pl), VarCreateBody(k, pl))>>
    IN  IF r.type # "document" THEN Result(NoState, TRUE, FALSE, rq)
        ELSE LET b == VarSensitive(k, r.data)
             IN  IF b = <<>> THEN Result(NoState, FALSE, TRUE, rq)
                 ELSE Result(VarState(pl, r.data, b[1], r.data.id), FALSE, FALSE, rq)

VariableRead(k, st, r) ==
    LET rq == <<Request("GET", VarPath(k, st), NoBody)>>
    IN  IF r.type # "document" THEN Result(st, TRUE, FALSE, rq)
        ELSE LET b == VarSensitive(k, r.data)
             IN  IF b = <<>> THEN Result(st, FALSE, TRUE, rq)
                 ELSE Result(VarState(st, r.data, b[1], r.data.id), FALSE, FALSE, rq)

\* rs is <<PATCH response>> or <<PATCH response, GET response>>
VariableUpdate(k, st, pl, rs) ==
    LET patch == Request("PATCH", VarPath(k, st), VarUpdateBody(k, pl, st))
        get == Request("GET", VarPath(k, st), NoBody)
    IN  IF rs[1].type = "transport_error" THEN Result(st, TRUE, FALSE, <<patch>>)
        ELSE IF rs[2].type # "document" THEN Result(st, TRUE, FALSE, <<patch, get>>)
        ELSE LET b == VarSensitive(k, rs[2].data)
             IN  IF b = <<>> THEN Result(st, FALSE, TRUE, <<patch, get>>)
                 ELSE Result(VarState(pl, rs[2].data, b[1], ValueString(st, "id")),
                             FALSE, FALSE, <<patch, get>>)

\* the response is not looked at; without a diagnostic Terraform drops the state
VariableDelete(k, st, r) ==
    LET rq == <<Request("DELETE", VarPath(k, st), NoBody)>>
    IN  IF r.type = "transport_error" THEN Result(st, TRUE, FALSE, rq)
        ELSE Result(NoState, FALSE, FALSE, rq)

\* the responses an Update consumes: the GET is only sent when the PATCH was answered
UpdateResponses(S) == {<<TransportError>>} \cup {<<Answered, r>> : r \in S}

\* Create is called for a resource that is not in the state
Creatable(k) == ~Present(tf) /\ kind \in {"none", k}

\* Read, Update and Delete are called for a resource that is in the state
Managed(k) == Present(tf) /\ kind = k

VarCreateAction(k) ==
    \E pl \in VarPlans(k), r \in VarResponses :
           Handled(k, "Create", NoState, pl, <<r>>, VariableCreate(k, pl, r))

VarReadAction(k) ==
    \E r \in VarResponses :
           Handled(k, "Read", tf, NoState, <<r>>, VariableRead(k, tf, r))

VarUpdateAction(k) ==
    \E pl \in VarPlans(k), rs \in UpdateResponses(VarResponses) :
           Handled(k, "Update", tf, pl, rs, VariableUpdate(k, tf, pl, rs))

VarDeleteAction(k) ==
    \E r \in DeleteReplies :
           Handled(k, "Delete", tf, NoState, <<r>>, VariableDelete(k, tf, r))

OrganizationVariableCreate ==
    Creatable("organization_variable") /\ VarCreateAction("organization_variable")

OrganizationVariableRead ==
    Managed("organization_variable") /\ VarReadAction("organization_variable")

OrganizationVariableUpdate ==
    Managed("organization_variable") /\ VarUpdateAction("organization_variable")

OrganizationVariableDelete ==
    Managed("organization_variable") /\ VarDeleteAction("organization_variable")

WorkspaceVariableCreate ==
    Creatable("workspace_variable") /\ VarCreateAction("workspace_variable")

WorkspaceVariableRead ==
    Managed("workspace_variable") /\ VarReadAction("workspace_variable")

WorkspaceVariableUpdate ==
    Managed("workspace_variable") /\ VarUpdateAction("workspace_variable")

WorkspaceVariableDelete ==
    Managed("workspace_variable") /\ VarDeleteAction("workspace_variable")

CollectionItemCreate ==
    Creatable("collection_item") /\ VarCreateAction("collection_item")

CollectionItemRead ==
    Managed("collection_item") /\ VarReadAction("collection_item")

CollectionItemUpdate ==
    Managed("collection_item") /\ VarUpdateAction("collection_item")

CollectionItemDelete ==
    Managed("collection_item") /\ VarDeleteAction("collection_item")

VarNext ==
    \/ OrganizationVariableCreate
    \/ OrganizationVariableRead
    \/ OrganizationVariableUpdate
    \/ OrganizationVariableDelete
    \/ WorkspaceVariableCreate
    \/ WorkspaceVariableRead
    \/ WorkspaceVariableUpdate
    \/ WorkspaceVariableDelete
    \/ CollectionItemCreate
    \/ CollectionItemRead
    \/ CollectionItemUpdate
    \/ CollectionItemDelete

SpecVar == Init /\ [][VarNext]_vars

\* the server's record, as the last handler saw it, is flagged sensitive
RecordSensitive(r) == r.type = "document" /\ BoolAttr(r.data.sensitive)

\* C1: Read of an organization variable, a workspace variable or a collection
\* item whose record is sensitive, with a non-empty value in the prior state,
\* stores the prior state's value, whatever the response's value attribute is.
C1_ReadKeepsSensitiveValue ==
    (/\ op = "Read"
     /\ kind \in VarKinds
     /\ ValueString(prior, "value") # <<>>
     /\ RecordSensitive(resps[1]))
        => (Present(tf) /\ ValueString(tf, "value") = ValueString(prior, "value"))

\* a sensitive Read whose response carries another value than the state, or none
C1_Witness ==
    /\ op = "Read"
    /\ kind = "workspace_variable"
    /\ ValueString(prior, "value") = <<"v">>
    /\ RecordSensitive(resps[1])
    /\ resps[1].data.value \in {<<>>, << <<>> >>, << <<"x">> >>}
    /\ ~diag
    /\ ValueString(tf, "value") = <<"v">>

\* C2: Create of an organization variable with key "k", value "v" and
\* sensitive = true, answered with a document of the sensitive record, persists
\* the value "v" whatever the document's value attribute is.
C2_CreateKeepsPlannedValue ==
    (/\ op = "Create"
     /\ kind = "organization_variable"
     /\ ValueString(plan, "key") = <<"k">>
     /\ ValueString(plan, "value") = <<"v">>
     /\ plan["sensitive"]
     /\ RecordSensitive(resps[1]))
        => (Present(tf) /\ ~diag /\ ~crashed /\ ValueString(tf, "value") = <<"v">>)

\* such a Create whose response omits the value or carries another one
C2_Witness ==
    /\ op = "Create"
    /\ kind = "organization_variable"
    /\ ValueString(plan, "key") = <<"k">>
    /\ ValueString(plan, "value") = <<"v">>
    /\ plan["sensitive"]
    /\ RecordSensitive(resps[1])
    /\ resps[1].data.value \in {<<>>, << <<"x">> >>}
    /\ ValueString(tf, "value") = <<"v">>

(***************************************************************************)
(* ImportState.                                                            *)
(***************************************************************************)
Alphabet == {"a", "b", ","}

SeqsUpTo(S, n) == UNION {[1..m -> S] : m \in 0..n}

\* the identifiers given to terraform import: non-empty
ImportIds == SeqsUpTo(Alphabet, MaxIdLen) \ {<<>>}

\* the index of the first separator in s, 0 when there is none
RECURSIVE IndexFrom(_, _, _)
IndexFrom(s, sep, i) ==
    IF i > Len(s) THEN 0
    ELSE IF s[i] = sep THEN i
    ELSE IndexFrom(s, sep, i + 1)

\* strings.Split(s, sep) for a one-character separator: n separators give
\* n+1 parts, and the empty string gives one empty part
RECURSIVE Split(_, _)
Split(s, sep) ==
    LET i == IndexFrom(s, sep, 1)
    IN  IF i = 0 THEN <<s>>
        ELSE <<SubSeq(s, 1, i - 1)>> \o Split(SubSeq(s, i + 1, Len(s)), sep)

\* the outcome of an ImportState call: no request is sent, req.ID is the input.
\* ImportState is the first handler Terraform calls for a resource instance.
Imported(k, id, st, d, c) == Outcome(k, "ImportState", NoState, id, <<>>, <<>>, st, d, c)

Fresh == op = "none"

\* resource.ImportStatePassthroughID(ctx, path.Root("id"), req, resp): the whole
\* identifier becomes the id attribute, whatever it holds
ImportStatePassthroughID(k, id) ==
    Imported(k, id, SetAttribute(NoState, "id", id), FALSE, FALSE)

\* the guard every splitting ImportState starts with
Malformed(idParts, n) ==
    \/ Len(idParts) # n
    \/ \E i \in 1..Len(idParts) : idParts[i] = <<>>

\* ImportState of a resource addressed by "<first>,<id>"
ImportTwoParts(k, id, first) ==
    LET idParts == Split(id, ",")
    IN  IF Malformed(idParts, 2)
        THEN Imported(k, id, NoState, TRUE, FALSE)
        ELSE Imported(k, id,
                 SetAttribute(SetAttribute(NoState, first, idParts[1]), "id", idParts[2]),
                 FALSE, FALSE)

\* ImportState of a resource addressed by "<organization>,<parent>,<id>"
ImportThreeParts(k, id, parent) ==
    LET idParts == Split(id, ",")
    IN  IF Malformed(idParts, 3)
        THEN Imported(k, id, NoState, TRUE, FALSE)
        ELSE Imported(k, id,
                 SetAttribute(SetAttribute(SetAttribute(NoState,
                     "organization_id", idParts[1]), parent, idParts[2]), "id", idParts[3]),
                 FALSE, FALSE)

OrganizationImportState ==
    Fresh /\ \E id \in ImportIds : ImportStatePassthroughID("organization", id)

TeamImportState ==
    Fresh /\ \E id \in ImportIds : ImportStatePassthroughID("team", id)

TeamTokenImportState ==
    Fresh /\ \E id \in ImportIds : ImportStatePassthroughID("team_token", id)

ModuleImportState ==
    Fresh /\ \E id \in ImportIds : ImportStatePassthroughID("module", id)

OrganizationVariableImportState ==
    Fresh /\ \E id \in ImportIds : ImportStatePassthroughID("organization_variable", id)

WorkspaceVariableImportState ==
    Fresh /\ \E id \in ImportIds : ImportStatePassthroughID("workspace_variable", id)

WorkspaceTagImportState ==
    Fresh /\ \E id \in ImportIds : ImportStatePassthroughID("workspace_tag", id)

\* the workspace_vcs resource without template and VCS connection
WorkspaceVcsImportState ==
    Fresh /\ \E id \in ImportIds : ImportStatePassthroughID("workspace_vcs", id)

\* the workspace_vcs resource with template and VCS connection
WorkspaceVcsTemplateImportState ==
    Fresh /\ \E id \in ImportIds : ImportTwoParts("workspace_vcs_template", id, "organization_id")

WorkspaceCliImportState ==
    Fresh /\ \E id \in ImportIds : ImportTwoParts("workspace_cli", id, "organization_id")

CollectionImportState ==
    Fresh /\ \E id \in ImportIds : ImportTwoParts("collection", id, "organization_id")

VcsImportState ==
    Fresh /\ \E id \in ImportIds : ImportTwoParts("vcs", id, "organization_id")

SshImportState ==
    Fresh /\ \E id \in ImportIds : ImportTwoParts("ssh", id, "organization_id")

OrganizationTagImportState ==
    Fresh /\ \E id \in ImportIds : ImportTwoParts("organization_tag", id, "organization_id")

OrganizationTemplateImportState ==
    Fresh /\ \E id \in ImportIds : ImportTwoParts("organization_template", id, "organization_id")

AgentImportState ==
    Fresh /\ \E id \in ImportIds : ImportTwoParts("agent", id, "organization_id")

WorkspaceWebhookEventImportState ==
    Fresh /\ \E id \in ImportIds : ImportTwoParts("workspace_webhook_event", id, "webhook_id")

WorkspaceAccessImportState ==
    Fresh /\ \E id \in ImportIds : ImportThreeParts("workspace_access", id, "workspace_id")

WorkspaceScheduleImportState ==
    Fresh /\ \E id \in ImportIds : ImportThreeParts("workspace_schedule", id, "workspace_id")

WorkspaceWebhookImportState ==
    Fresh /\ \E id \in ImportIds : ImportThreeParts("workspace_webhook", id, "workspace_id")

WorkspaceWebhookV2ImportState ==
    Fresh /\ \E id \in ImportIds : ImportThreeParts("workspace_webhook_v2", id, "workspace_id")

CollectionItemImportState ==
    Fresh /\ \E id \in ImportIds : ImportThreeParts("collection_item", id, "collection_id")

\* the guard asks for three parts and the body then reads idParts[3], the fourth
\* element of a Go slice of three: an index out of range, which panics
CollectionReferenceImportState ==
    Fresh /\ \E id \in ImportIds :
        LET idParts == Split(id, ",")
        IN  IF Malformed(idParts, 3)
            THEN Imported("collection_reference", id, NoState, TRUE, FALSE)
            ELSE Imported("collection_reference", id, NoState, FALSE, TRUE)

ImportNext ==
    \/ TeamImportState
    \/ OrganizationImportState
    \/ TeamTokenImportState
    \/ ModuleImportState
    \/ OrganizationVariableImportState
    \/ WorkspaceVariableImportState
    \/ WorkspaceTagImportState
    \/ WorkspaceVcsImportState
    \/ WorkspaceVcsTemplateImportState
    \/ WorkspaceCliImportState
    \/ CollectionImportState
    \/ VcsImportState
    \/ SshImportState
    \/ OrganizationTagImportState
    \/ OrganizationTemplateImportState
    \/ AgentImportState
    \/ WorkspaceWebhookEventImportState
    \/ WorkspaceAccessImportState
    \/ WorkspaceScheduleImportState
    \/ WorkspaceWebhookImportState
    \/ WorkspaceWebhookV2ImportState
    \/ CollectionItemImportState
    \/ CollectionReferenceImportState

SpecImport == Init /\ [][ImportNext]_vars

(***************************************************************************)
(* ImportState: what the specification says of it.                        *)
(***************************************************************************)
\* the parts of the identifier the last ImportState was given
ImportParts == Split(plan, ",")

WellFormedParts(n) ==
    /\ Len(ImportParts) = n
    /\ \A i \in 1..n : ImportParts[i] # <<>>

\* the organization-scoped top-level resources, imported as "<org>,<id>"
OrgScopedKinds ==
    {"vcs", "ssh", "team", "module", "organization_variable", "collection",
     "workspace_cli", "workspace_vcs", "workspace_vcs_template"}

\* the workspace- and collection-scoped children, imported as "<org>,<parent>,<id>"
ChildKinds ==
    {"workspace_variable", "workspace_tag", "workspace_access", "workspace_schedule",
     "workspace_webhook", "workspace_webhook_v2", "collection_item",
     "collection_reference"}

ParentAttr(k) ==
    IF k \in {"collection_item", "collection_reference"} THEN "collection_id"
    ELSE "workspace_id"

\* the number of parts the identifier of a resource has
ImportArity(k) ==
    IF k \in ChildKinds THEN 3
    ELSE IF k \in {"organization", "team_token"} THEN 1
    ELSE 2

HasAttr(st, a, v) == a \in DOMAIN st /\ st[a] = v

\* C8: ImportState of an organization-scoped top-level resource with an
\* identifier "<org>,<id>" of two non-empty parts sets organization_id to <org>
\* and id to <id>.
C8_ImportTwoPartsSetsOrgAndId ==
    (op = "ImportState" /\ kind \in OrgScopedKinds /\ WellFormedParts(2))
        => /\ HasAttr(tf, "organization_id", ImportParts[1])
           /\ HasAttr(tf, "id", ImportParts[2])

\* C9: ImportState of any resource with an identifier of the wrong number of
\* parts, or with an empty part, adds an error diagnostic and sets no attribute.
C9_MalformedImportFails ==
    (op = "ImportState" /\ ~WellFormedParts(ImportArity(kind)))
        => (diag /\ ~Present(tf))

\* C10: ImportState of a workspace- or collection-scoped child with a well-formed
\* identifier "<org>,<parent>,<id>" completes without error and sets
\* organization_id, the parent id attribute and id to the three parts in order.
C10_ImportThreePartsSetsAll ==
    (op = "ImportState" /\ kind \in ChildKinds /\ WellFormedParts(3))
        => /\ ~diag
           /\ ~crashed
           /\ HasAttr(tf, "organization_id", ImportParts[1])
           /\ HasAttr(tf, ParentAttr(kind), ImportParts[2])
           /\ HasAttr(tf, "id", ImportParts[3])

(***************************************************************************)
(* Connection-type resources: SSH key and VCS connection.  Their secret    *)
(* attribute is private_key and client_secret.                             *)
(***************************************************************************)
ConnKinds == {"ssh", "vcs"}

SecretAttr(k) == IF k = "ssh" THEN "private_key" ELSE "client_secret"

SshPlans ==
    {[organization_id |-> OrgId, name |-> <<"n">>, description |-> <<"d">>,
      private_key |-> s, ssh_type |-> <<"rsa">>] : s \in {<<"s">>, <<"t">>}}

VcsPlans ==
    {[organization_id |-> OrgId, name |-> <<"n">>, description |-> <<"d">>,
      vcs_type |-> <<"GITHUB">>, client_id |-> <<"c">>, client_secret |-> s,
      endpoint |-> <<"e">>, api_url |-> <<"u">>, status |-> <<"PENDING">>] :
        s \in {<<"s">>, <<"t">>}}

\* the documents of an SSH key the server may answer with
SshDocuments ==
    [id : ServerIds, name : {<<"n">>}, description : {<<"d">>},
     privateKey : Opt({<<"s">>, <<"x">>}), sshType : {<<"rsa">>}]

\* the documents of a VCS connection the server may answer with
VcsDocuments ==
    [id : ServerIds, name : {<<"n">>}, description : {<<"d">>},
     vcsType : {<<"GITHUB">>}, clientId : {<<"c">>},
     clientSecret : Opt({<<"s">>, <<"x">>}), endpoint : {<<"e">>},
     apiUrl : {<<"u">>}, status : {<<"PENDING">>, <<"COMPLETED">>}]

SshResponses == {TransportError, BadBody} \cup {Document(d) : d \in SshDocuments}

VcsResponses == {TransportError, BadBody} \cup {Document(d) : d \in VcsDocuments}

ConnCollectionPath(k, st) ==
    <<Lit("api"), Lit("v1"), Lit("organization"), ValueString(st, "organization_id"), Lit(k)>>

ConnPath(k, st) == ConnCollectionPath(k, st) \o <<ValueString(st, "id")>>

SshBody(pl) ==
    [id |-> ValueString(pl, "id"), name |-> ValueString(pl, "name"),
     description |-> ValueString(pl, "description"),
     privateKey |-> ValueString(pl, "private_key"),
     sshType |-> ValueString(pl, "ssh_type")]

VcsBody(pl) ==
    [id |-> ValueString(pl, "id"), name |-> ValueString(pl, "name"),
     description |-> ValueString(pl, "description"),
     vcsType |-> ValueString(pl, "vcs_type"), clientId |-> ValueString(pl, "client_id"),
     clientSecret |-> ValueString(pl, "client_secret"),
     endpoint |-> ValueString(pl, "endpoint"), apiUrl |-> ValueString(pl, "api_url"),
     status |-> ValueString(pl, "status")]

\* the SSH model the handlers persist: every attribute, the private key
\* included, is taken from the deserialized entity
SshState(base, e, id) ==
    Merge(base, [id |-> id, name |-> e.name, private_key |-> StringAttr(e.privateKey),
                 ssh_type |-> e.sshType, description |-> e.description])

\* the VCS attributes Create, Read and Update take from the entity; the
\* client secret is not one of them
VcsState(base, e, id) ==
    Merge(base, [id |-> id, name |-> e.name, description |-> e.description,
                 vcs_type |-> e.vcsType, client_id |-> e.clientId,
                 endpoint |-> e.endpoint, api_url |-> e.apiUrl, status |-> e.status])

\* Create and Update of a VCS connection also write back the plan's
\* client_secret and connect_url
VcsPlanned(pl, st) ==
    Merge(st, [client_secret |-> ValueString(pl, "client_secret"),
               connect_url |-> ValueString(pl, "connect_url")])

ConnCreate(k, pl, r) ==
    LET rq == <<Request("POST", ConnCollectionPath(k, pl),
                        IF k = "ssh" THEN SshBody(pl) ELSE VcsBody(pl))>>
    IN  IF r.type # "document" THEN Result(NoState, TRUE, FALSE, rq)
        ELSE IF k = "ssh" THEN Result(SshState(pl, r.data, r.data.id), FALSE, FALSE, rq)
        ELSE Result(VcsPlanned(pl, VcsState(pl, r.data, r.data.id)), FALSE, FALSE, rq)

ConnRead(k, st, r) ==
    LET rq == <<Request("GET", ConnPath(k, st), NoBody)>>
    IN  IF r.type # "document" THEN Result(st, TRUE, FALSE, rq)
        ELSE IF k = "ssh" THEN Result(SshState(st, r.data, r.data.id), FALSE, FALSE, rq)
        ELSE Result(VcsState(st, r.data, r.data.id), FALSE, FALSE, rq)

\* rs is <<PATCH response>> or <<PATCH response, GET response>>
ConnUpdate(k, st, pl, rs) ==
    LET patch == Request("PATCH", ConnPath(k, st),
                         IF k = "ssh" THEN SshBody(pl) ELSE VcsBody(pl))
        get == Request("GET", ConnPath(k, st), NoBody)
        id == ValueString(st, "id")
    IN  IF rs[1].type = "transport_error" THEN Result(st, TRUE, FALSE, <<patch>>)
        ELSE IF rs[2].type # "document" THEN Result(st, TRUE, FALSE, <<patch, get>>)
        ELSE IF k = "ssh"
             THEN Result(SshState(pl, rs[2].data, id), FALSE, FALSE, <<patch, get>>)
        ELSE Result(VcsPlanned(pl, VcsState(pl, rs[2].data, id)), FALSE, FALSE, <<patch, get>>)

\* the SSH key's Delete does not look at the response; the VCS connection's
\* Delete fails unless the status is 204
ConnDelete(k, st, r) ==
    LET rq == <<Request("DELETE", ConnPath(k, st), NoBody)>>
    IN  IF r.type = "transport_error" THEN Result(st, TRUE, FALSE, rq)
        ELSE IF k = "vcs" /\ r.data.status # StatusNoContent THEN Result(st, TRUE, FALSE, rq)
        ELSE Result(NoState, FALSE, FALSE, rq)

\* the plan of an Update carries the id of the state
UpdatePlans(S) == {Merge(pl, [id |-> ValueString(tf, "id")]) : pl \in S}

SshCreate ==
    /\ Creatable("ssh")
    /\ \E pl \in SshPlans, r \in SshResponses :
           Handled("ssh", "Create", NoState, pl, <<r>>, ConnCreate("ssh", pl, r))

SshRead ==
    /\ Managed("ssh")
    /\ \E r \in SshResponses :
           Handled("ssh", "Read", tf, NoState, <<r>>, ConnRead("ssh", tf, r))

SshUpdate ==
    /\ Managed("ssh")
    /\ \E pl \in UpdatePlans(SshPlans), rs \in UpdateResponses(SshResponses) :
           Handled("ssh", "Update", tf, pl, rs, ConnUpdate("ssh", tf, pl, rs))

SshDelete ==
    /\ Managed("ssh")
    /\ \E r \in DeleteReplies :
           Handled("ssh", "Delete", tf, NoState, <<r>>, ConnDelete("ssh", tf, r))

VcsCreate ==
    /\ Creatable("vcs")
    /\ \E pl \in VcsPlans, r \in VcsResponses :
           Handled("vcs", "Create", NoState, pl, <<r>>, ConnCreate("vcs", pl, r))

VcsRead ==
    /\ Managed("vcs")
    /\ \E r \in VcsResponses :
           Handled("vcs", "Read", tf, NoState, <<r>>, ConnRead("vcs", tf, r))

VcsUpdate ==
    /\ Managed("vcs")
    /\ \E pl \in UpdatePlans(VcsPlans), rs \in UpdateResponses(VcsResponses) :
           Handled("vcs", "Update", tf, pl, rs, ConnUpdate("vcs", tf, pl, rs))

VcsDelete ==
    /\ Managed("vcs")
    /\ \E r \in DeleteReplies :
           Handled("vcs", "Delete", tf, NoState, <<r>>, ConnDelete("vcs", tf, r))

ConnNext ==
    \/ SshCreate
    \/ SshRead
    \/ SshUpdate
    \/ SshDelete
    \/ VcsCreate
    \/ VcsRead
    \/ VcsUpdate
    \/ VcsDelete

SpecConn == Init /\ [][ConnNext]_vars

\* the secret the handler was given: the prior state's for Read, the plan's otherwise
GivenSecret == ValueString(IF op = "Read" THEN prior ELSE plan, SecretAttr(kind))

\* C3: after a Create, Read or Update of an SSH key or a VCS connection that
\* stored a state, the secret attribute of that state (private_key,
\* client_secret) is the value the plan or the prior state held, never the
\* response's.
C3_SecretKeptFromPlanOrState ==
    (/\ kind \in ConnKinds
     /\ op \in {"Create", "Read", "Update"}
     /\ ~diag
     /\ Present(tf))
        => ValueString(tf, SecretAttr(kind)) = GivenSecret

(***************************************************************************)
(* Workspaces: the CLI workspace and the two versions of the VCS           *)
(* workspace, the later one with template_id, folder and vcs_id.  Delete   *)
(* renames the workspace and flags it deleted with a PATCH.                *)
(***************************************************************************)
WsKinds == {"workspace_cli", "workspace_vcs", "workspace_vcs_template"}

\* b := make([]byte, 4)
SuffixLen == 4

\* the attributes of WorkspaceCliResourceModel and of the two WorkspaceVcsResourceModel
WsAttrs(k) ==
    {"organization_id", "name", "description", "iac_type", "iac_version", "execution_mode"}
    \cup (IF k = "workspace_cli" THEN {} ELSE {"repository", "branch"})
    \cup (IF k = "workspace_vcs_template" THEN {"template_id", "folder"} ELSE {})

WsPlanValue(a, n) ==
    CASE a = "organization_id" -> OrgId
      [] a = "name" -> n
      [] a = "description" -> <<"d">>
      [] a = "iac_type" -> <<"terraform">>
      [] a = "iac_version" -> <<"1">>
      [] a = "execution_mode" -> <<"remote">>
      [] a = "repository" -> <<"r">>
      [] a = "branch" -> <<"m">>
      [] a = "template_id" -> <<"t">>
      [] a = "folder" -> <<"/">>
      [] OTHER -> <<"c">>

WsNames == {<<"w">>, <<"w", "s">>}

\* vcs_id is optional in the later VCS workspace
WsPlans(k) ==
    {[a \in WsAttrs(k) |-> WsPlanValue(a, n)] : n \in WsNames}
    \cup (IF k = "workspace_vcs_template"
          THEN {[a \in WsAttrs(k) \cup {"vcs_id"} |-> WsPlanValue(a, n)] : n \in WsNames}
          ELSE {})

\* the workspace documents the server may answer with
WsDocuments ==
    [id : ServerIds, name : {<<>>} \cup WsNames, description : {<<"d">>},
     source : {<<"r">>}, branch : {<<"m">>}, folder : {<<"/">>},
     defaultTemplate : {<<"t">>}, iacType : {<<"terraform">>},
     terraformVersion : {<<"1">>}, executionMode : {<<"remote">>},
     vcs : Opt({<<"c">>})]

WsResponses == {TransportError, BadBody} \cup {Document(d) : d \in WsDocuments}

WsCollectionPath(st) ==
    <<Lit("api"), Lit("v1"), Lit("organization"), ValueString(st, "organization_id"),
      Lit("workspace")>>

WsPath(st) == WsCollectionPath(st) \o <<ValueString(st, "id")>>

\* the WorkspaceEntity a handler marshals from the model m; the CLI workspace
\* has the fixed source "empty" and branch "remote-content"
WsBody(k, m, id, name, deleted) ==
    [id |-> id, name |-> name, description |-> ValueString(m, "description"),
     source |-> IF k = "workspace_cli" THEN <<"empty">> ELSE ValueString(m, "repository"),
     branch |-> IF k = "workspace_cli" THEN <<"remote-content">> ELSE ValueString(m, "branch"),
     folder |-> ValueString(m, "folder"),
     defaultTemplate |-> ValueString(m, "template_id"),
     iacType |-> ValueString(m, "iac_type"),
     terraformVersion |-> ValueString(m, "iac_version"),
     executionMode |-> ValueString(m, "execution_mode"),
     deleted |-> deleted,
     vcs |-> IF "vcs_id" \in DOMAIN m THEN <<m["vcs_id"]>> ELSE <<>>]

\* the attributes Create and Read copy from the entity
WsState(k, base, e) ==
    Merge(base,
          [a \in {"id"} \cup (WsAttrs(k) \ {"organization_id"}) |->
              CASE a = "id" -> e.id
                [] a = "name" -> e.name
                [] a = "description" -> e.description
                [] a = "iac_type" -> e.iacType
                [] a = "iac_version" -> e.terraformVersion
                [] a = "execution_mode" -> e.executionMode
                [] a = "repository" -> e.source
                [] a = "branch" -> e.branch
                [] a = "template_id" -> e.defaultTemplate
                [] OTHER -> e.folder])

\* Create of the later VCS workspace also stores the id of the vcs relation
WsVcsId(k, st, e) ==
    IF k = "workspace_vcs_template" /\ e.vcs # <<>>
    THEN Merge(st, [vcs_id |-> e.vcs[1]]) ELSE st

\* the later VCS workspace formats the status of the nil response into its
\* diagnostic when the transport failed, and panics
WsTransportFailure(k, st, rq) ==
    IF k = "workspace_vcs_template" THEN Result(st, FALSE, TRUE, rq)
    ELSE Result(st, TRUE, FALSE, rq)

WorkspaceCreate(k, pl, r) ==
    LET rq == <<Request("POST", WsCollectionPath(pl),
                        WsBody(k, pl, <<>>, ValueString(pl, "name"), FALSE))>>
    IN  IF r.type = "transport_error" THEN WsTransportFailure(k, NoState, rq)
        ELSE IF r.type # "document" THEN Result(NoState, TRUE, FALSE, rq)
        ELSE Result(WsVcsId(k, WsState(k, pl, r.data), r.data), FALSE, FALSE, rq)

WorkspaceRead(k, st, r) ==
    LET rq == <<Request("GET", WsPath(st), NoBody)>>
    IN  IF r.type = "transport_error" THEN WsTransportFailure(k, st, rq)
        ELSE IF r.type # "document" THEN Result(st, TRUE, FALSE, rq)
        ELSE Result(WsState(k, st, r.data), FALSE, FALSE, rq)

\* var chars
Chars ==
    <<
      "a", "b", "c", "d", "e", "f", "g", "h", "i", "j", "k", "l", "m",
      "n", "o", "p", "q", "r", "s", "t", "u", "v", "w", "x", "y", "z",
      "A", "B", "C", "D", "E", "F", "G", "H", "I", "J", "K", "L", "M",
      "N", "O", "P", "Q", "R", "S", "T", "U", "V", "W", "X", "Y", "Z",
      "1", "2", "3", "4", "5", "6", "7", "8", "9", "0" >>

\* the values of a byte
Bytes == 0..255

\* chars[int(c)%ll]
CharOf(c) == Chars[(c % Len(Chars)) + 1]

\* b[i] = chars[int(b[i])%ll], for i < 4
RandomSuffix(b) == [i \in 1..SuffixLen |-> CharOf(b[i])]

SuffixOnly(name, suffix) == name \o suffix

\* fmt.Sprintf("%s_DEL_%s", data.Name.ValueString(), string(b))
DeletedName(name, suffix) == name \o <<"_", "D", "E", "L", "_">> \o suffix

\* the outcomes of rand.Read(b): <<>> for an error, else the bytes it filled in
ByteSamples == {61, 62, 255}

RandReads == {<<>>} \cup [1..SuffixLen -> ByteSamples]

DeleteWithRequest(k, st, b, r) ==
    LET rq == <<Request("DELETE", WsPath(st), NoBody)>>
    IN  IF b = <<>> THEN Result(st, TRUE, FALSE, <<>>)
        ELSE IF r.type = "transport_error" THEN WsTransportFailure(k, st, rq)
        ELSE Result(NoState, FALSE, FALSE, rq)

\* b is what rand.Read produced, r the answer to the PATCH
\* the body of the soft delete: no handler sets Folder or Vcs, and only the
\* second VCS workspace resource sets TemplateId
WsDeleteBody(k, st, name) ==
    [WsBody(k, st, ValueString(st, "id"), name, TRUE) EXCEPT
         !.folder = <<>>,
         !.defaultTemplate = IF k = "workspace_vcs_template"
                             THEN ValueString(st, "template_id") ELSE <<>>,
         !.vcs = <<>>]

WorkspaceDelete(k, st, b, r) ==
    LET name == DeletedName(ValueString(st, "name"), RandomSuffix(b))
        rq == <<Request("PATCH", WsPath(st), WsDeleteBody(k, st, name))>>
    IN  IF b = <<>> THEN Result(st, TRUE, FALSE, <<>>)
        ELSE IF r.type = "transport_error" THEN WsTransportFailure(k, st, rq)
        ELSE IF k = "workspace_vcs_template" /\ r.data.status # StatusNoContent
             THEN Result(st, TRUE, FALSE, rq)
        ELSE Result(NoState, FALSE, FALSE, rq)

DeleteResponses == {TransportError} \cup {Replied(c) : c \in {200, StatusNoContent}}

WsCreateAction(k) ==
    \E pl \in WsPlans(k), r \in WsResponses :
           Handled(k, "Create", NoState, pl, <<r>>, WorkspaceCreate(k, pl, r))

WsReadAction(k) ==
    \E r \in WsResponses :
           Handled(k, "Read", tf, NoState, <<r>>, WorkspaceRead(k, tf, r))

\* a Delete whose rand.Read failed consumes no response
WsDeleteAction(k) ==
    \E b \in RandReads, r \in DeleteResponses :
           Handled(k, "Delete", tf, NoState, IF b = <<>> THEN <<>> ELSE <<r>>,
                   WorkspaceDelete(k, tf, b, r))

WorkspaceCliCreate == Creatable("workspace_cli") /\ WsCreateAction("workspace_cli")

WorkspaceCliRead == Managed("workspace_cli") /\ WsReadAction("workspace_cli")

WorkspaceCliDelete == Managed("workspace_cli") /\ WsDeleteAction("workspace_cli")

WorkspaceVcsCreate == Creatable("workspace_vcs") /\ WsCreateAction("workspace_vcs")

WorkspaceVcsRead == Managed("workspace_vcs") /\ WsReadAction("workspace_vcs")

WorkspaceVcsDelete == Managed("workspace_vcs") /\ WsDeleteAction("workspace_vcs")

WorkspaceVcsTemplateCreate ==
    Creatable("workspace_vcs_template") /\ WsCreateAction("workspace_vcs_template")

WorkspaceVcsTemplateRead ==
    Managed("workspace_vcs_template") /\ WsReadAction("workspace_vcs_template")

WorkspaceVcsTemplateDelete ==
    Managed("workspace_vcs_template") /\ WsDeleteAction("workspace_vcs_template")

WsNext ==
    \/ WorkspaceCliCreate
    \/ WorkspaceCliRead
    \/ WorkspaceCliDelete
    \/ WorkspaceVcsCreate
    \/ WorkspaceVcsRead
    \/ WorkspaceVcsDelete
    \/ WorkspaceVcsTemplateCreate
    \/ WorkspaceVcsTemplateRead
    \/ WorkspaceVcsTemplateDelete

SpecWs == Init /\ [][WsNext]_vars

WorkspaceDeleted == op = "Delete" /\ kind \in WsKinds

\* every request of the last handler is a PATCH to the prior state's workspace
OnlyPatches ==
    \A i \in 1..Len(reqs) : reqs[i].method = "PATCH" /\ reqs[i].path = WsPath(prior)

\* C4, as stated: Delete of a CLI or VCS workspace sends exactly one request,
\* a PATCH to the workspace's path, and no DELETE.
C4_DeleteSendsExactlyOnePatch ==
    WorkspaceDeleted => (Len(reqs) = 1 /\ OnlyPatches)

\* C4, amended: Delete of a CLI or VCS workspace sends at most one request;
\* what it sends is a PATCH to the workspace's path, never a DELETE; and a
\* Delete that ends without an error diagnostic and without a panic has sent
\* exactly one.
C4_DeleteSendsOnlyPatch ==
    WorkspaceDeleted =>
        /\ Len(reqs) <= 1
        /\ OnlyPatches
        /\ (~diag /\ ~crashed) => Len(reqs) = 1

\* a Delete of the later VCS workspace that was answered 204 and dropped the state
C4_Witness ==
    /\ WorkspaceDeleted
    /\ kind = "workspace_vcs_template"
    /\ Len(reqs) = 1
    /\ reqs[1].method = "PATCH"
    /\ resps = <<Replied(StatusNoContent)>>
    /\ ~diag
    /\ ~Present(tf)

Letters ==
    {"a", "b", "c", "d", "e", "f", "g", "h", "i", "j", "k", "l", "m", "n", "o", "p", "q", "r", "s", "t", "u", "v", "w", "x", "y", "z"}
    \cup
    {"A", "B", "C", "D", "E", "F", "G", "H", "I", "J", "K", "L", "M", "N", "O", "P", "Q", "R", "S", "T", "U", "V", "W", "X", "Y", "Z"}

Digits == {"0", "1", "2", "3", "4", "5", "6", "7", "8", "9"}

\* n is p followed by _DEL_ and exactly four characters of [A-Za-z0-9]
MarkedDeleted(n, p) ==
    /\ Len(n) = Len(p) + 9
    /\ SubSeq(n, 1, Len(p)) = p
    /\ SubSeq(n, Len(p) + 1, Len(p) + 5) = <<"_", "D", "E", "L", "_">>
    /\ \A i \in (Len(p) + 6)..(Len(p) + 9) : n[i] \in Letters \cup Digits

\* C5: the body of the PATCH that a workspace Delete sends has the prior
\* state's name followed by _DEL_ and exactly 4 characters of [A-Za-z0-9] as
\* its name, and deleted = true; every value of a random byte is turned into
\* a character of [A-Za-z0-9].
C5_DeleteBodyMarksDeleted ==
    /\ \A c \in Bytes : CharOf(c) \in Letters \cup Digits
    /\ WorkspaceDeleted =>
           \A i \in 1..Len(reqs) :
               /\ reqs[i].body.deleted = TRUE
               /\ MarkedDeleted(reqs[i].body.name, ValueString(prior, "name"))

\* a Delete of a workspace named "ws" whose random bytes were 61, 62, 255, 255
C5_Witness ==
    /\ WorkspaceDeleted
    /\ kind = "workspace_cli"
    /\ ValueString(prior, "name") = <<"w", "s">>
    /\ Len(reqs) = 1
    /\ reqs[1].body.name = <<"w", "s", "_", "D", "E", "L", "_", "0", "a", "h", "h">>
    /\ reqs[1].body.deleted = TRUE

(***************************************************************************)
(* Webhooks: the workspace webhook, its second version, and the webhook    *)
(* event.  These handlers look at the status code of a response and, the   *)
(* first webhook resource apart, parse its body with encoding/json, where  *)
(* a field that is absent is the zero value.  A reply carries a status    *)
(* code and a body: <<>> when the body does not parse, <<d>> when it       *)
(* parses to d.                                                            *)
(***************************************************************************)
HookKinds == {"workspace_webhook", "workspace_webhook_v2", "workspace_webhook_event"}

\* http.StatusOK
StatusOK == 200

\* http.StatusNotFound
StatusNotFound == 404

Reply(code, json) == [type |-> "reply", data |-> [status |-> code, json |-> json]]

Replies(codes, docs) == {Reply(c, j) : c \in codes, j \in {<<>>} \cup {<<d>> : d \in docs}}

Parsed(r) == r.type = "reply" /\ r.data.json # <<>>

\* the WorkspaceWebhookEntity documents the server may answer with
WebhookDocuments ==
    [id : ServerIds, path : {<<>>, <<"a", ",", "b">>}, branch : {<<"m">>},
     templateId : {<<"t">>}, remoteHookId : {<<"h">>}, event : {<<"PUSH">>}]

\* a 404 carries an error body, which is not a webhook document
WebhookResponses ==
    {TransportError, Reply(StatusNotFound, <<>>)} \cup Replies({StatusOK}, WebhookDocuments)

WebhookPath(st) ==
    <<Lit("api"), Lit("v1"), Lit("organization"), ValueString(st, "organization_id"),
      Lit("workspace"), ValueString(st, "workspace_id"), Lit("webhook"),
      ValueString(st, "id")>>

\* the nil response of a failed transport is formatted into the diagnostic:
\* a panic; no status code is looked at, the state is never removed
WebhookRead(st, r) ==
    LET rq == <<Request("GET", WebhookPath(st), NoBody)>>
    IN  IF r.type = "transport_error" THEN Result(st, FALSE, TRUE, rq)
        ELSE IF ~Parsed(r) THEN Result(st, TRUE, FALSE, rq)
        ELSE LET e == r.data.json[1]
             IN  Result(Merge(st, [path |-> Split(e.path, ","),
                                   branch |-> Split(e.branch, ","),
                                   template_id |-> e.templateId,
                                   remote_hook_id |-> e.remoteHookId,
                                   event |-> e.event, id |-> e.id]),
                        FALSE, FALSE, rq)

\* what the second webhook resource reads from the body
WebhookV2Documents == [id : {<<>>} \cup ServerIds, remoteHookId : {<<>>, <<"h">>}]

WebhookV2Responses ==
    {TransportError}
    \cup Replies({StatusOK, StatusNotFound} \cup ErrorStatuses, WebhookV2Documents)

WebhookV2Read(st, r) ==
    LET rq == <<Request("GET", WebhookPath(st), NoBody)>>
    IN  IF r.type = "transport_error" THEN Result(st, TRUE, FALSE, rq)
        ELSE IF r.data.status = StatusNotFound THEN Result(NoState, FALSE, FALSE, rq)
        ELSE IF r.data.status # StatusOK THEN Result(st, TRUE, FALSE, rq)
        ELSE IF ~Parsed(r) THEN Result(st, TRUE, FALSE, rq)
        ELSE Result(Merge(st, [id |-> r.data.json[1].id,
                               remote_hook_id |-> r.data.json[1].remoteHookId]),
                    FALSE, FALSE, rq)

\* webhookAPIResponse: the id of the workspace relationship and the ids of
\* the events relationship
WebhookDetails == [workspace : {<<>>, ParentId}, events : SUBSET ServerIds]

WebhookDetailResponses ==
    {TransportError}
    \cup Replies({StatusOK, StatusNotFound} \cup ErrorStatuses, WebhookDetails)

\* the workspace document of which Read takes the organization's id
WorkspaceLookupResponses ==
    {TransportError}
    \cup Replies({StatusOK, StatusNotFound}, [organization : {<<>>, OrgId}])

\* the answers to the POST of an atomic operation; errors is len(errorResp.Errors)
OperationResponses ==
    {TransportError}
    \cup Replies({StatusOK} \cup ErrorStatuses, [errors : {0, 1}])

WebhookDetailPath(st) ==
    <<Lit("api"), Lit("v1"), Lit("webhook"), ValueString(st, "webhook_id")>>

OperationsPath == <<Lit("api"), Lit("v1"), Lit("operations")>>

\* the answers to the POST that creates a webhook: errors is
\* len(errorResp.Errors), results the id of atomicResp.AtomicResults[0], if any
WebhookV2CreateResponses ==
    {TransportError}
    \cup Replies({StatusOK} \cup ErrorStatuses, [errors : {0, 1}, results : Opt(ServerIds)])

WebhookV2Plans ==
    {[organization_id |-> OrgId, workspace_id |-> ParentId]}
    \cup {[organization_id |-> OrgId, workspace_id |-> ParentId, remote_hook_id |-> <<"h">>]}

\* webhookID is the uuid the handler draws.  The message of the transport
\* error formats the Status of the nil response; the id of the first result
\* is stored as id and as remote_hook_id
WebhookV2Create(pl, webhookID, r) ==
    LET rq == <<Request("POST", OperationsPath,
                        [op |-> <<"add">>,
                         href |-> <<Lit("organization"), ValueString(pl, "organization_id"),
                                    Lit("workspace"), ValueString(pl, "workspace_id"),
                                    Lit("webhook")>>,
                         id |-> webhookID])>>
    IN  IF r.type = "transport_error" THEN Result(NoState, FALSE, TRUE, rq)
        ELSE IF r.data.status < 200 \/ r.data.status >= 300
             THEN IF ~Parsed(r) THEN Result(NoState, TRUE, FALSE, rq)
                  ELSE IF r.data.json[1].errors = 0 THEN Result(NoState, FALSE, TRUE, rq)
                  ELSE Result(NoState, TRUE, FALSE, rq)
        ELSE IF ~Parsed(r) THEN Result(NoState, TRUE, FALSE, rq)
        ELSE IF r.data.json[1].results = <<>> THEN Result(NoState, TRUE, FALSE, rq)
        ELSE Result(Merge(pl, [id |-> r.data.json[1].results[1],
                               remote_hook_id |-> r.data.json[1].results[1]]),
                    FALSE, FALSE, rq)

RECURSIVE Join(_, _)
\* strings.Join
Join(l, sep) ==
    IF l = <<>> THEN <<>>
    ELSE IF Len(l) = 1 THEN l[1]
    ELSE l[1] \o <<sep>> \o Join(Tail(l), sep)

\* path and branch are optional lists of strings
WebhookPlans ==
    {[organization_id |-> OrgId, workspace_id |-> ParentId, path |-> p,
      branch |-> <<<<"m">>>>, template_id |-> <<"t">>, event |-> <<"PUSH">>] :
         p \in {<<>>, <<<<"a">>>>, <<<<"a">>, <<"b">>>>}}

\* Create joins the lists for the body and splits the strings of the answer;
\* the message of the transport error formats the Status of the nil response
WebhookCreate(pl, webhookID, r) ==
    LET rq == <<Request("POST",
                        <<Lit("api"), Lit("v1"), Lit("organization"),
                          ValueString(pl, "organization_id"), Lit("workspace"),
                          ValueString(pl, "workspace_id"), Lit("webhook")>>,
                        [id |-> webhookID, path |-> Join(pl["path"], ","),
                         branch |-> Join(pl["branch"], ","),
                         templateId |-> ValueString(pl, "template_id"),
                         event |-> ValueString(pl, "event")])>>
    IN  IF r.type = "transport_error" THEN Result(NoState, FALSE, TRUE, rq)
        ELSE IF ~Parsed(r) THEN Result(NoState, TRUE, FALSE, rq)
        ELSE LET e == r.data.json[1]
             IN  Result(Merge(pl, [path |-> Split(e.path, ","),
                                   branch |-> Split(e.branch, ","),
                                   template_id |-> e.templateId,
                                   remote_hook_id |-> e.remoteHookId,
                                   event |-> e.event, id |-> e.id]),
                        FALSE, FALSE, rq)

\* the answers to the PATCH of Update: only the status is looked at
WebhookV2PatchResponses == {TransportError} \cup Replies({StatusOK} \cup ErrorStatuses, {})

\* Update PATCHes the webhook path with a body that carries the id alone and
\* GETs the same path; the message of either transport error formats the
\* Status of the nil response.  rs is <<PATCH answer>> or <<PATCH answer, GET answer>>
WebhookV2Update(st, pl, rs) ==
    LET patch == Request("PATCH", WebhookPath(st), [id |-> ValueString(st, "id")])
        get == Request("GET", WebhookPath(st), NoBody)
    IN  IF rs[1].type = "transport_error" THEN Result(st, FALSE, TRUE, <<patch>>)
        ELSE IF rs[1].data.status < 200 \/ rs[1].data.status >= 300
             THEN Result(st, TRUE, FALSE, <<patch>>)
        ELSE IF rs[2].type = "transport_error" THEN Result(st, FALSE, TRUE, <<patch, get>>)
        ELSE IF ~Parsed(rs[2]) THEN Result(st, TRUE, FALSE, <<patch, get>>)
        ELSE Result(Merge(pl, [id |-> ValueString(st, "id"),
                               remote_hook_id |-> rs[2].data.json[1].remoteHookId]),
                    FALSE, FALSE, <<patch, get>>)

\* Delete sends DELETE to the webhook path and wants 204
WebhookV2Delete(st, r) ==
    LET rq == <<Request("DELETE", WebhookPath(st), NoBody)>>
    IN  IF r.type = "transport_error" THEN Result(st, FALSE, TRUE, rq)
        ELSE IF r.data.status # StatusNoContent THEN Result(st, TRUE, FALSE, rq)
        ELSE Result(NoState, FALSE, FALSE, rq)

AlwaysFound(events, id) == TRUE

\* the loop over webhookDetails.Data.Relationships.Events.Data
EventFound(events, id) == id \in events

\* Read goes on to the workspace when the webhook's details name one
ReadsWorkspace(r) ==
    /\ Parsed(r)
    /\ r.data.status # StatusNotFound
    /\ r.data.json[1].workspace # <<>>

\* rs is <<webhook response>> or <<webhook response, workspace response>>
WebhookEventRead(st, rs) ==
    LET get == Request("GET", WebhookDetailPath(st), NoBody)
    IN  IF rs[1].type = "transport_error" THEN Result(st, TRUE, FALSE, <<get>>)
        ELSE IF rs[1].data.status = StatusNotFound THEN Result(NoState, FALSE, FALSE, <<get>>)
        ELSE IF ~Parsed(rs[1]) THEN Result(st, TRUE, FALSE, <<get>>)
        ELSE IF rs[1].data.json[1].workspace = <<>> THEN Result(st, TRUE, FALSE, <<get>>)
        ELSE LET details == rs[1].data.json[1]
                 rq == <<get, Request("GET", <<Lit("api"), Lit("v1"), Lit("workspace"),
                                               details.workspace>>, NoBody)>>
             IN  IF rs[2].type = "transport_error" THEN Result(st, TRUE, FALSE, rq)
                 ELSE IF rs[2].data.status = StatusNotFound THEN Result(st, TRUE, FALSE, rq)
                 ELSE IF ~Parsed(rs[2]) THEN Result(st, TRUE, FALSE, rq)
                 ELSE IF rs[2].data.json[1].organization = <<>>
                      THEN Result(st, TRUE, FALSE, rq)
                 ELSE IF ~EventFound(details.events, ValueString(st, "id"))
                      THEN Result(NoState, FALSE, FALSE, rq)
                 ELSE Result(st, FALSE, FALSE, rq)

\* Delete posts the atomic operation when the webhook's details list the event
PostsOperation(st, r) ==
    /\ Parsed(r)
    /\ r.data.status # StatusNotFound
    /\ EventFound(r.data.json[1].events, ValueString(st, "id"))

\* rs is <<webhook response>> or <<webhook response, operation response>>
WebhookEventDelete(st, rs) ==
    LET get == Request("GET", WebhookDetailPath(st), NoBody)
        post == Request("POST", OperationsPath,
                        [op |-> <<"remove">>,
                         href |-> <<Lit("webhook"), ValueString(st, "webhook_id"),
                                    Lit("events"), ValueString(st, "id")>>])
    IN  IF rs[1].type = "transport_error" THEN Result(st, TRUE, FALSE, <<get>>)
        ELSE IF rs[1].data.status = StatusNotFound THEN Result(NoState, FALSE, FALSE, <<get>>)
        ELSE IF ~Parsed(rs[1]) THEN Result(st, TRUE, FALSE, <<get>>)
        ELSE IF ~EventFound(rs[1].data.json[1].events, ValueString(st, "id"))
             THEN Result(NoState, FALSE, FALSE, <<get>>)
        ELSE IF rs[2].type = "transport_error" THEN Result(st, FALSE, TRUE, <<get, post>>)
        ELSE IF rs[2].data.status >= 200 /\ rs[2].data.status < 300
             THEN Result(NoState, FALSE, FALSE, <<get, post>>)
        ELSE IF ~Parsed(rs[2]) THEN Result(st, TRUE, FALSE, <<get, post>>)
        ELSE IF rs[2].data.json[1].errors = 0 THEN Result(st, FALSE, TRUE, <<get, post>>)
        ELSE Result(st, TRUE, FALSE, <<get, post>>)

\* the responses a handler consumes: a second one only after a first one in
\* continues, those that make it send a second request
Exchanges(first, continues, second) ==
    {<<r>> : r \in first \ continues} \cup {<<r, q>> : r \in continues, q \in second}

WorkspaceWebhookRead ==
    /\ Managed("workspace_webhook")
    /\ \E r \in WebhookResponses :
           Handled("workspace_webhook", "Read", tf, NoState, <<r>>, WebhookRead(tf, r))

WorkspaceWebhookCreate ==
    /\ Creatable("workspace_webhook")
    /\ \E pl \in WebhookPlans, webhookID \in ServerIds, r \in WebhookResponses :
           Handled("workspace_webhook", "Create", NoState, pl, <<r>>,
                   WebhookCreate(pl, webhookID, r))

WorkspaceWebhookV2Create ==
    /\ Creatable("workspace_webhook_v2")
    /\ \E pl \in WebhookV2Plans, webhookID \in ServerIds, r \in WebhookV2CreateResponses :
           Handled("workspace_webhook_v2", "Create", NoState, pl, <<r>>,
                   WebhookV2Create(pl, webhookID, r))

WorkspaceWebhookV2Read ==
    /\ Managed("workspace_webhook_v2")
    /\ \E r \in WebhookV2Responses :
           Handled("workspace_webhook_v2", "Read", tf, NoState, <<r>>, WebhookV2Read(tf, r))

WorkspaceWebhookV2Update ==
    /\ Managed("workspace_webhook_v2")
    /\ \E pl \in WebhookV2Plans :
       \E rs \in Exchanges(WebhookV2PatchResponses,
                           {r \in WebhookV2PatchResponses :
                                r.type = "reply" /\ r.data.status = StatusOK},
                           WebhookV2Responses) :
           Handled("workspace_webhook_v2", "Update", tf, pl, rs, WebhookV2Update(tf, pl, rs))

WorkspaceWebhookV2Delete ==
    /\ Managed("workspace_webhook_v2")
    /\ \E r \in DeleteReplies :
           Handled("workspace_webhook_v2", "Delete", tf, NoState, <<r>>,
                   WebhookV2Delete(tf, r))

WorkspaceWebhookEventRead ==
    /\ Managed("workspace_webhook_event")
    /\ \E rs \in Exchanges(WebhookDetailResponses,
                           {r \in WebhookDetailResponses : ReadsWorkspace(r)},
                           WorkspaceLookupResponses) :
           Handled("workspace_webhook_event", "Read", tf, NoState, rs,
                   WebhookEventRead(tf, rs))

WorkspaceWebhookEventDelete ==
    /\ Managed("workspace_webhook_event")
    /\ \E rs \in Exchanges(WebhookDetailResponses,
                           {r \in WebhookDetailResponses : PostsOperation(tf, r)},
                           OperationResponses) :
           Handled("workspace_webhook_event", "Delete", tf, NoState, rs,
                   WebhookEventDelete(tf, rs))

HookNext ==
    \/ WorkspaceWebhookImportState
    \/ WorkspaceWebhookV2ImportState
    \/ WorkspaceWebhookEventImportState
    \/ WorkspaceWebhookCreate
    \/ WorkspaceWebhookRead
    \/ WorkspaceWebhookV2Create
    \/ WorkspaceWebhookV2Read
    \/ WorkspaceWebhookV2Update
    \/ WorkspaceWebhookV2Delete
    \/ WorkspaceWebhookEventRead
    \/ WorkspaceWebhookEventDelete

SpecHook == Init /\ [][HookNext]_vars

\* the GET of the parent webhook was answered with details that do not list
\* the id of the event in the prior state
EventNotListed ==
    /\ kind = "workspace_webhook_event"
    /\ Len(resps) >= 1
    /\ Parsed(resps[1])
    /\ ValueString(prior, "id") \notin resps[1].data.json[1].events

Posted == \E i \in 1..Len(reqs) : reqs[i].method = "POST"

\* C6: a Delete of a webhook event whose GET of the parent webhook shows that
\* the event's id is not in the events relationship sends no POST to
\* /api/v1/operations and ends without an error diagnostic.
C6_DeleteOfUnlistedEventSendsNoPost ==
    (op = "Delete" /\ EventNotListed) => (~Posted /\ ~diag /\ ~crashed)

\* a Delete answered 200 with details that list another event only
C6_Witness ==
    /\ op = "Delete"
    /\ EventNotListed
    /\ resps[1].data.status = StatusOK
    /\ resps[1].data.json[1].events # {}
    /\ reqs = <<Request("GET", WebhookDetailPath(prior), NoBody)>>
    /\ ~diag
    /\ ~Present(tf)

\* the GET of the object was answered 404
AnsweredNotFound ==
    /\ Len(resps) >= 1
    /\ resps[1].type = "reply"
    /\ resps[1].data.status = StatusNotFound

\* C7: a Read of a webhook, of either version, or of a webhook event that
\* finds the remote object missing (404 on its GET or, for an event, the id
\* not in the parent's events relationship) removes the resource from the
\* state and raises no error diagnostic.
C7_ReadRemovesMissingObject ==
    (op = "Read" /\ kind \in HookKinds /\ (AnsweredNotFound \/ EventNotListed))
        => (~Present(tf) /\ ~diag /\ ~crashed)

\* a Read that follows a successful Create of the same resource, is given the
\* state Create stored, and stores a state
ReadAfterCreate ==
    /\ op = "Create" /\ ~diag /\ ~crashed /\ Present(tf)
    /\ op' = "Read" /\ kind' = kind /\ prior' = tf
    /\ ~diag' /\ ~crashed' /\ Present(tf')

\* the GET of that Read is answered with the record of the identifier Create returned
SameWebhook == Parsed(resps'[1]) /\ resps'[1].data.json[1].id = ValueString(tf, "id")

\* C12: a Read run right after a successful Create, with the identifier
\* Create returned and against the unchanged server, stores the record Create
\* stored on every non-sensitive attribute (no attribute of a webhook is
\* sensitive).
C12_ReadAfterCreateStoresSameRecord ==
    [][(ReadAfterCreate /\ kind = "workspace_webhook_v2" /\ SameWebhook) => tf' = tf]_vars

\* the byte values that select a character of the alphabet
ByteValuesOf(ch) == {c \in Bytes : CharOf(c) = ch}

\* the characters of the suffix of the name the last Delete sent
SuffixSent ==
    LET name == reqs[1].body.name
    IN  {name[i] : i \in (Len(name) - SuffixLen + 1)..Len(name)}

\* C19: each of the 4 suffix characters of the soft-delete name is selected
\* by as many byte values of 0..255 as every character of the 62 of
\* [a-zA-Z0-9], so that uniform random bytes give a uniform character.
C19_SuffixCharactersUniform ==
    (op = "Delete" /\ kind \in WsKinds /\ Len(reqs) = 1) =>
        \A ch \in SuffixSent : \A i \in 1..Len(Chars) :
            Cardinality(ByteValuesOf(ch)) = Cardinality(ByteValuesOf(Chars[i]))

\* C20: a workspace Delete whose PATCH receives an HTTP response, whatever
\* the status code, reports success: no diagnostic, and the resource leaves
\* the state.
C20_DeleteSucceedsOnAnyResponse ==
    (op = "Delete" /\ kind \in WsKinds /\ Len(resps) = 1 /\ resps[1].type = "status")
        => (~diag /\ ~crashed /\ ~Present(tf))

\* a request of the last handler got no response
TransportFailed ==
    \E i \in 1..Len(resps) : resps[i].type = "transport_error"

\* C16: an operation whose HTTP round trip fails at transport level ends with
\* an error diagnostic and returns normally: it does not crash the provider.
C16_TransportErrorIsDiagnosed ==
    (TransportFailed /\ kind \in WsKinds) => (diag /\ ~crashed)

(***************************************************************************)
(* Team token, workspace access and workspace tag.  The team token         *)
(* endpoints speak plain JSON; its identifier is the "jti" claim of the    *)
(* token the server returns.  A token value is kept as what                *)
(* jwt.Parser.ParseUnverified makes of it: whether it parses as a JWT, and *)
(* the string claim "jti" when its claims carry one.  The empty string,    *)
(* which json.Unmarshal leaves for an absent "token" field, does not parse.*)
(***************************************************************************)
AccKinds == {"team_token", "workspace_access", "workspace_tag"}

\* http.StatusAccepted
StatusAccepted == 202

Tokens == {[jwt |-> FALSE, jti |-> <<>>]} \cup {[jwt |-> TRUE, jti |-> j] : j \in Opt(ServerIds)}

\* the claim and no error, or the empty string and an error
GetClaimFromToken(jwtToken, claim) ==
    IF ~jwtToken.jwt THEN [id |-> <<>>, err |-> TRUE]
    ELSE IF jwtToken[claim] = <<>> THEN [id |-> <<>>, err |-> TRUE]
    ELSE [id |-> jwtToken[claim][1], err |-> FALSE]

GetIDFromToken(jwtToken) == GetClaimFromToken(jwtToken, "jti")

TeamTokenPlans ==
    {[team_name |-> <<"t">>, description |-> d, days |-> 1, hours |-> 0, minutes |-> 0] :
        d \in {<<"d">>, <<"e">>}}

TeamTokenResponses == {TransportError, BadBody} \cup {Document([token |-> t]) : t \in Tokens}

\* the TeamTokenEntity elements of the list the server answers a GET with
TeamTokenEntities ==
    [id : ServerIds, description : {<<"d">>, <<"x">>}, days : {1}, hours : {0},
     minutes : {0}, group : {<<"t">>}]

TeamTokenListResponses ==
    {TransportError, BadBody} \cup
    {Document([tokens |-> l]) :
        l \in {<<>>} \cup {<<e>> : e \in TeamTokenEntities}
                     \cup {<<e, f>> : e \in TeamTokenEntities, f \in TeamTokenEntities}}

TeamTokensPath == <<Lit("access-token"), Lit("v1"), Lit("teams")>>

\* an error of GetIDFromToken adds a diagnostic and the handler goes on: the
\* plan is stored with the empty id
TeamTokenCreate(pl, r) ==
    LET rq == <<Request("POST", TeamTokensPath,
                        [description |-> ValueString(pl, "description"), days |-> pl["days"],
                         hours |-> pl["hours"], minutes |-> pl["minutes"],
                         group |-> ValueString(pl, "team_name")])>>
    IN  IF r.type # "document" THEN Result(NoState, TRUE, FALSE, rq)
        ELSE LET c == GetIDFromToken(r.data.token)
             IN  Result(Merge(pl, [id |-> c.id, value |-> r.data.token]), c.err, FALSE, rq)

\* the list of all tokens is fetched; the first element with the state's id
\* refreshes the state, and without one the state is stored as it was
TeamTokenRead(st, r) ==
    LET rq == <<Request("GET", TeamTokensPath, NoBody)>>
    IN  IF r.type # "document" THEN Result(st, TRUE, FALSE, rq)
        ELSE LET l == r.data.tokens
                 found == {i \in 1..Len(l) : l[i].id = ValueString(st, "id")}
             IN  IF found = {} THEN Result(st, FALSE, FALSE, rq)
                 ELSE LET e == l[CHOOSE i \in found : \A j \in found : i <= j]
                      IN  Result(Merge(st, [description |-> e.description, days |-> e.days,
                                            hours |-> e.hours, minutes |-> e.minutes,
                                            team_name |-> e.group]), FALSE, FALSE, rq)

\* the body of Update is a log line: the response state stays the prior state
TeamTokenUpdate(st) == Result(st, FALSE, FALSE, <<>>)

\* the error message formats the Status of the response, nil after a transport error
TeamTokenDelete(st, r) ==
    LET rq == <<Request("DELETE", TeamTokensPath \o <<ValueString(st, "id")>>, NoBody)>>
    IN  IF r.type = "transport_error" THEN Result(st, FALSE, TRUE, rq)
        ELSE IF r.data.status # StatusAccepted THEN Result(st, TRUE, FALSE, rq)
        ELSE Result(NoState, FALSE, FALSE, rq)

AccessPlans ==
    {[organization_id |-> OrgId, workspace_id |-> ParentId, name |-> <<"n">>,
      manage_state |-> b, manage_workspace |-> c, manage_job |-> FALSE] :
        b \in BOOLEAN, c \in BOOLEAN}

\* the WorkspaceAccessEntity documents the server may answer with
AccessDocuments ==
    [id : ServerIds, name : Opt({<<"n">>}), manageState : Opt({TRUE}),
     manageWorkspace : {<<FALSE>>}, manageJob : {<<FALSE>>}]

AccessResponses == {TransportError, BadBody} \cup {Document(d) : d \in AccessDocuments}

WorkspaceCollectionPath(st, collection) ==
    <<Lit("api"), Lit("v1"), Lit("organization"), ValueString(st, "organization_id"),
      Lit("workspace"), ValueString(st, "workspace_id"), Lit(collection)>>

AccessBody(pl, id) ==
    [id |-> id, name |-> ValueString(pl, "name"), manageState |-> pl["manage_state"],
     manageWorkspace |-> pl["manage_workspace"], manageJob |-> pl["manage_job"]]

\* the three flags of the entity, as the handlers copy them into the model
AccessFlags(e) ==
    [manage_state |-> BoolAttr(e.manageState), manage_workspace |-> BoolAttr(e.manageWorkspace),
     manage_job |-> BoolAttr(e.manageJob)]

WorkspaceAccessCreate(pl, r) ==
    LET rq == <<Request("POST", WorkspaceCollectionPath(pl, "access"), AccessBody(pl, <<>>))>>
    IN  IF r.type # "document" THEN Result(NoState, TRUE, FALSE, rq)
        ELSE Result(Merge(Merge(pl, AccessFlags(r.data)), [id |-> r.data.id]),
                    FALSE, FALSE, rq)

WorkspaceAccessRead(st, r) ==
    LET rq == <<Request("GET", WorkspaceCollectionPath(st, "access") \o
                               <<ValueString(st, "id")>>, NoBody)>>
    IN  IF r.type # "document" THEN Result(st, TRUE, FALSE, rq)
        ELSE Result(Merge(Merge(st, AccessFlags(r.data)),
                          [name |-> StringAttr(r.data.name), id |-> r.data.id]),
                    FALSE, FALSE, rq)

\* the response of the GET is copied into the local state model, and the plan,
\* with the id of the state, is what the handler stores
WorkspaceAccessUpdate(st, pl, rs) ==
    LET path == WorkspaceCollectionPath(st, "access") \o <<ValueString(st, "id")>>
        patch == Request("PATCH", path, AccessBody(pl, ValueString(st, "id")))
        get == Request("GET", path, NoBody)
    IN  IF rs[1].type = "transport_error" THEN Result(st, TRUE, FALSE, <<patch>>)
        ELSE IF rs[2].type # "document" THEN Result(st, TRUE, FALSE, <<patch, get>>)
        ELSE Result(Merge(pl, [id |-> ValueString(st, "id")]), FALSE, FALSE, <<patch, get>>)

\* the URL of Delete spells the collection "accesss"; the response is not looked at
WorkspaceAccessDelete(st, r) ==
    LET rq == <<Request("DELETE", WorkspaceCollectionPath(st, "accesss") \o
                                  <<ValueString(st, "id")>>, NoBody)>>
    IN  IF r.type = "transport_error" THEN Result(st, TRUE, FALSE, rq)
        ELSE Result(NoState, FALSE, FALSE, rq)

TagPlans ==
    {[organization_id |-> OrgId, workspace_id |-> ParentId, tag_id |-> t] :
        t \in {<<"g">>, <<"h">>}}

TagResponses ==
    {TransportError, BadBody} \cup
    {Document(d) : d \in [id : ServerIds, tagId : Opt({<<"g">>, <<"h">>})]}

WorkspaceTagCreate(pl, r) ==
    LET rq == <<Request("POST", WorkspaceCollectionPath(pl, "workspaceTag"),
                        [tagId |-> ValueString(pl, "tag_id")])>>
    IN  IF r.type # "document" THEN Result(NoState, TRUE, FALSE, rq)
        ELSE Result(Merge(pl, [id |-> r.data.id, tag_id |-> StringAttr(r.data.tagId)]),
                    FALSE, FALSE, rq)

WorkspaceTagRead(st, r) ==
    LET rq == <<Request("GET", WorkspaceCollectionPath(st, "workspaceTag") \o
                               <<ValueString(st, "id")>>, NoBody)>>
    IN  IF r.type # "document" THEN Result(st, TRUE, FALSE, rq)
        ELSE Result(Merge(st, [id |-> r.data.id, tag_id |-> StringAttr(r.data.tagId)]),
                    FALSE, FALSE, rq)

\* the body of Update is empty: the response state stays the prior state
WorkspaceTagUpdate(st) == Result(st, FALSE, FALSE, <<>>)

\* the URL of Delete ends in the tag_id attribute; the response is not looked at
WorkspaceTagDelete(st, r) ==
    LET rq == <<Request("DELETE", WorkspaceCollectionPath(st, "workspaceTag") \o
                                  <<ValueString(st, "tag_id")>>, NoBody)>>
    IN  IF r.type = "transport_error" THEN Result(st, TRUE, FALSE, rq)
        ELSE Result(NoState, FALSE, FALSE, rq)

\* Delete of an organization disables it: a PATCH of the record with
\* Disabled set; the response is not looked at
OrganizationDelete(st, r) ==
    LET rq == <<Request("PATCH", <<Lit("api"), Lit("v1"), Lit("organization"),
                                   ValueString(st, "id")>>,
                        [id |-> ValueString(st, "id"), disabled |-> TRUE])>>
    IN  IF r.type = "transport_error" THEN Result(st, TRUE, FALSE, rq)
        ELSE Result(NoState, FALSE, FALSE, rq)

OrganizationDeleteAction ==
    /\ Managed("organization")
    /\ \E r \in DeleteReplies :
           Handled("organization", "Delete", tf, NoState, <<r>>, OrganizationDelete(tf, r))

TeamTokenCreateAction ==
    /\ Creatable("team_token")
    /\ \E pl \in TeamTokenPlans, r \in TeamTokenResponses :
           Handled("team_token", "Create", NoState, pl, <<r>>, TeamTokenCreate(pl, r))

TeamTokenReadAction ==
    /\ Managed("team_token")
    /\ \E r \in TeamTokenListResponses :
           Handled("team_token", "Read", tf, NoState, <<r>>, TeamTokenRead(tf, r))

TeamTokenUpdateAction ==
    /\ Managed("team_token")
    /\ \E pl \in TeamTokenPlans :
           Handled("team_token", "Update", tf, pl, <<>>, TeamTokenUpdate(tf))

TeamTokenDeleteAction ==
    /\ Managed("team_token")
    /\ \E r \in {TransportError} \cup {Replied(c) : c \in {StatusAccepted, StatusNoContent}} :
           Handled("team_token", "Delete", tf, NoState, <<r>>, TeamTokenDelete(tf, r))

WorkspaceAccessCreateAction ==
    /\ Creatable("workspace_access")
    /\ \E pl \in AccessPlans, r \in AccessResponses :
           Handled("workspace_access", "Create", NoState, pl, <<r>>,
                   WorkspaceAccessCreate(pl, r))

WorkspaceAccessReadAction ==
    /\ Managed("workspace_access")
    /\ \E r \in AccessResponses :
           Handled("workspace_access", "Read", tf, NoState, <<r>>,
                   WorkspaceAccessRead(tf, r))

WorkspaceAccessUpdateAction ==
    /\ Managed("workspace_access")
    /\ \E pl \in AccessPlans, rs \in UpdateResponses(AccessResponses) :
           Handled("workspace_access", "Update", tf, pl, rs,
                   WorkspaceAccessUpdate(tf, pl, rs))

WorkspaceAccessDeleteAction ==
    /\ Managed("workspace_access")
    /\ \E r \in DeleteReplies :
           Handled("workspace_access", "Delete", tf, NoState, <<r>>,
                   WorkspaceAccessDelete(tf, r))

WorkspaceTagCreateAction ==
    /\ Creatable("workspace_tag")
    /\ \E pl \in TagPlans, r \in TagResponses :
           Handled("workspace_tag", "Create", NoState, pl, <<r>>, WorkspaceTagCreate(pl, r))

WorkspaceTagReadAction ==
    /\ Managed("workspace_tag")
    /\ \E r \in TagResponses :
           Handled("workspace_tag", "Read", tf, NoState, <<r>>, WorkspaceTagRead(tf, r))

WorkspaceTagUpdateAction ==
    /\ Managed("workspace_tag")
    /\ \E pl \in TagPlans :
           Handled("workspace_tag", "Update", tf, pl, <<>>, WorkspaceTagUpdate(tf))

WorkspaceTagDeleteAction ==
    /\ Managed("workspace_tag")
    /\ \E r \in DeleteReplies :
           Handled("workspace_tag", "Delete", tf, NoState, <<r>>, WorkspaceTagDelete(tf, r))

AccNext ==
    \/ TeamTokenCreateAction
    \/ TeamTokenReadAction
    \/ TeamTokenUpdateAction
    \/ TeamTokenDeleteAction
    \/ WorkspaceAccessCreateAction
    \/ WorkspaceAccessReadAction
    \/ WorkspaceAccessUpdateAction
    \/ WorkspaceAccessDeleteAction
    \/ WorkspaceTagCreateAction
    \/ WorkspaceTagReadAction
    \/ WorkspaceTagUpdateAction
    \/ WorkspaceTagDeleteAction
    \/ OrganizationImportState
    \/ OrganizationDeleteAction

SpecAcc == Init /\ [][AccNext]_vars

\* a response of which the status code is outside 2xx
NonSuccess(r) ==
    /\ r.type \in {"status", "reply"}
    /\ (r.data.status < 200 \/ r.data.status >= 300)

\* C17: a non-2xx response to a request of an operation is reported as an
\* error diagnostic (the variables and collection items are no webhooks, so
\* the exception of a 404 during Read does not apply to them).
C17_NonSuccessStatusIsDiagnosed ==
    (kind \in VarKinds /\ \E i \in 1..Len(resps) : NonSuccess(resps[i])) => diag

\* the last handler got no response, or a body it could not deserialize, or,
\* for a team token, a token of which the identifier cannot be decoded
CreateFailed ==
    /\ op = "Create"
    /\ \/ resps[Len(resps)].type \in {"transport_error", "bad_body"}
       \/ /\ kind = "team_token"
          /\ resps[1].type = "document"
          /\ GetIDFromToken(resps[1].data.token).err

\* C11: a Create that fails with a transport error or cannot deserialize the
\* server's response (for a team token: cannot decode the identifier out of
\* the returned token) raises an error diagnostic and persists no state.
C11_FailedCreatePersistsNothing ==
    (CreateFailed /\ kind \in AccKinds) => (diag /\ ~Present(tf))

\* the last handler was an Update that ended without diagnostic or panic
UpdateSucceeded == op = "Update" /\ ~diag /\ ~crashed

\* the requests of the last handler are a PATCH and then a GET to the same path
PatchThenGet ==
    /\ Len(reqs) = 2
    /\ reqs[1].method = "PATCH"
    /\ reqs[2].method = "GET"
    /\ reqs[2].path = reqs[1].path

\* C13: a successful Update sends a PATCH to the entity's path and after it a
\* GET to the same path, and the record it persists takes its server-tracked
\* attributes (for a workspace access: the three manage flags) from the
\* response of that GET.
C13_UpdatePatchesThenStoresWhatGetReturns ==
    (UpdateSucceeded /\ kind \in AccKinds) =>
        /\ PatchThenGet
        /\ kind = "workspace_access" =>
               \A a \in DOMAIN AccessFlags(resps[2].data) :
                   tf[a] = AccessFlags(resps[2].data)[a]

\* the path of the entity a state describes: the collection path its Create
\* posted to, or for an organization the collection of organizations,
\* followed by the id
EntityPath(k, st) ==
    ( IF k = "team_token" THEN TeamTokensPath
      ELSE IF k = "workspace_access" THEN WorkspaceCollectionPath(st, "access")
      ELSE IF k = "workspace_tag" THEN WorkspaceCollectionPath(st, "workspaceTag")
      ELSE <<Lit("api"), Lit("v1"), Lit("organization")>> ) \o <<ValueString(st, "id")>>

\* C14: Delete of an entity other than a workspace sends an HTTP DELETE to
\* the entity's path, and none of them is deleted by sending a PATCH.
C14_DeleteSendsDeleteToEntityPath ==
    (op = "Delete" /\ kind \in AccKinds \cup {"organization"}) =>
        /\ Len(reqs) = 1
        /\ reqs[1].method = "DELETE"
        /\ reqs[1].path = EntityPath(kind, prior)

\* C15: Read, Update and Delete address the same remote entity: every request
\* they send goes to the collection path followed by the id of the state.
C15_HandlersAddressEntityById ==
    (op \in {"Read", "Update", "Delete"} /\ kind \in AccKinds) =>
        \A i \in 1..Len(reqs) : reqs[i].path = EntityPath(kind, prior)

(***************************************************************************)
(* Data sources: the lookup of an organization and of an organization      *)
(* template by name.  Read is given the configuration, asks the server for *)
(* the list filtered by the name, and stores a state.                      *)
(***************************************************************************)
DataKinds == {"data.organization", "data.organization_template"}

DataNames == {<<"n">>, <<"m">>, <<"n", " ">>}

DataConfigs(k) ==
    IF k = "data.organization" THEN {[name |-> n] : n \in DataNames}
    ELSE {[organization_id |-> OrgId, name |-> n] : n \in DataNames}

\* the OrganizationEntity and OrganizationTemplateEntity elements of the list
DataEntities(k) ==
    IF k = "data.organization"
    THEN [id : ServerIds, name : {<<"n">>}, description : {<<"d">>, <<"e">>}]
    ELSE [id : ServerIds, name : {<<"n">>, <<"m">>}]

DataResponses(k) ==
    {TransportError, BadBody} \cup
    {Document([list |-> l]) : l \in SeqsUpTo(DataEntities(k), MaxListLen)}

\* url.PathEscape, on the characters of the model
PathEscape(s) == [i \in 1..Len(s) |-> IF s[i] = " " THEN "%20" ELSE s[i]]

DataPath(k, cfg) ==
    IF k = "data.organization"
    THEN <<Lit("api"), Lit("v1"), Lit("organization"), Lit("?filter[organization]=name=="),
           ValueString(cfg, "name")>>
    ELSE <<Lit("api"), Lit("v1"), Lit("organization"), ValueString(cfg, "organization_id"),
           Lit("template"), Lit("?filter[template]=name=='"),
           PathEscape(ValueString(cfg, "name")), Lit("'")>>

\* the loop over the list: every element is copied into the same model
RECURSIVE CopyEach(_, _, _)
CopyEach(k, st, l) ==
    IF l = <<>> THEN st
    ELSE CopyEach(k,
                  Merge(st, IF k = "data.organization"
                            THEN [id |-> Head(l).id, name |-> Head(l).name,
                                  description |-> Head(l).description]
                            ELSE [id |-> Head(l).id, name |-> Head(l).name]),
                  Tail(l))

\* after a transport error the handler only logs, and goes on to read the
\* Status or the Body of the nil response
DataSourceRead(k, cfg, r) ==
    LET rq == <<Request("GET", DataPath(k, cfg), NoBody)>>
    IN  IF r.type = "transport_error" THEN Result(NoState, FALSE, TRUE, rq)
        ELSE IF r.type # "document" THEN Result(NoState, TRUE, FALSE, rq)
        ELSE Result(CopyEach(k, cfg, r.data.list), FALSE, FALSE, rq)

\* a data source is read whenever Terraform refreshes or plans
Readable == kind \in {"none"} \cup DataKinds

DataReadAction(k) ==
    \E cfg \in DataConfigs(k), r \in DataResponses(k) :
        Handled(k, "Read", NoState, cfg, <<r>>, DataSourceRead(k, cfg, r))

OrganizationDataSourceRead == Readable /\ DataReadAction("data.organization")

OrganizationTemplateDataSourceRead == Readable /\ DataReadAction("data.organization_template")

DataNext ==
    \/ OrganizationDataSourceRead
    \/ OrganizationTemplateDataSourceRead

SpecData == Init /\ [][DataNext]_vars

\* the list the last lookup was answered with
ListAnswered == IF resps[1].type = "document" THEN resps[1].data.list ELSE <<>>

\* C18: a data-source lookup by name stores the attributes of the first
\* element of the filtered list, whatever the number of elements in it.
C18_LookupStoresFirstElement ==
    (op = "Read" /\ kind \in DataKinds /\ ListAnswered # <<>>) =>
        /\ ~diag /\ ~crashed
        /\ \A a \in DOMAIN ListAnswered[1] : ValueString(tf, a) = ListAnswered[1][a]

\* C21: the PATCH body of an Update carries the identifier of the state and
\* every mutable attribute of the resource with the value of the plan (for a
\* variable: key, value, description, category, sensitive, hcl).
C21_UpdateBodyCarriesPlan ==
    (op = "Update" /\ kind \in VarKinds) =>
        LET body == reqs[1].body
        IN  /\ reqs[1].method = "PATCH"
            /\ body.id = ValueString(prior, "id")
            /\ body.key = ValueString(plan, "key")
            /\ body.value = ValueString(plan, "value")
            /\ body.description = ValueString(plan, "description")
            /\ body.category = ValueString(plan, "category")
            /\ body.sensitive = <<plan["sensitive"]>>
            /\ body.hcl = plan["hcl"]

(***************************************************************************)
(* Module, team and organization.  An optional attribute that the plan     *)
(* does not set is null: it is not in the domain of the plan.  A pointer   *)
(* field or a relation of a request body is <<>> when nil.                 *)
(***************************************************************************)
OptionalAttrs(S, attrs) ==
    UNION {{Merge(pl, o) : o \in [set -> {<<"x">>}]} : pl \in S, set \in SUBSET attrs}

ModulePlans ==
    OptionalAttrs({[organization_id |-> OrgId, name |-> <<"n">>, description |-> <<"d">>,
                    provider_name |-> <<"aws">>, source |-> <<"s">>]},
                  {"vcs_id", "ssh_id", "tag_prefix", "folder"})

\* the ModuleEntity documents the server may answer with
ModuleDocuments ==
    [id : ServerIds, name : {<<"n">>}, description : {<<"d">>}, provider : {<<"aws">>},
     source : {<<"s">>}, folder : Opt({<<"f">>}), tagPrefix : Opt({<<"v">>}),
     vcs : Opt({<<"c">>}), ssh : {<<>>}]

ModuleResponses == {TransportError, BadBody} \cup {Document(d) : d \in ModuleDocuments}

\* a pointer to the attribute's value, nil for a null attribute
ValueStringPointer(pl, a) == IF a \in DOMAIN pl THEN <<pl[a]>> ELSE <<>>

\* the body of Create: a set tag_prefix makes the handler set the Vcs relation
\* from vcs_id, and TagPrefix stays nil
ModuleBody(pl) ==
    [name |-> ValueString(pl, "name"), description |-> ValueString(pl, "description"),
     provider |-> ValueString(pl, "provider_name"), source |-> ValueString(pl, "source"),
     folder |-> ValueStringPointer(pl, "folder"),
     tagPrefix |-> <<>>,
     vcs |-> IF "tag_prefix" \in DOMAIN pl \/ "vcs_id" \in DOMAIN pl
             THEN <<ValueString(pl, "vcs_id")>> ELSE <<>>,
     ssh |-> IF "ssh_id" \in DOMAIN pl THEN <<ValueString(pl, "ssh_id")>> ELSE <<>>]

\* the attributes Create and Read copy from the entity: folder and tag_prefix
\* only when the entity carries them
ModuleState(base, e) ==
    LET copied == Merge(base, [name |-> e.name, description |-> e.description,
                               provider_name |-> e.provider, source |-> e.source])
        folder == IF e.folder = <<>> THEN copied ELSE Merge(copied, [folder |-> e.folder[1]])
    IN  IF e.tagPrefix = <<>> THEN folder ELSE Merge(folder, [tag_prefix |-> e.tagPrefix[1]])

ModuleCreate(pl, r) ==
    LET rq == <<Request("POST", <<Lit("api"), Lit("v1"), Lit("organization"),
                                  ValueString(pl, "organization_id"), Lit("module")>>,
                        ModuleBody(pl))>>
    IN  IF r.type # "document" THEN Result(NoState, TRUE, FALSE, rq)
        ELSE Result(Merge(ModuleState(pl, r.data), [id |-> r.data.id]), FALSE, FALSE, rq)

\* Read also copies the ids of the relations the entity carries; the id is kept
ModuleRead(st, r) ==
    LET rq == <<Request("GET", <<Lit("api"), Lit("v1"), Lit("organization"),
                                 ValueString(st, "organization_id"), Lit("module"),
                                 ValueString(st, "id")>>, NoBody)>>
        e == r.data
        vcs == IF e.vcs = <<>> THEN ModuleState(st, e)
               ELSE Merge(ModuleState(st, e), [vcs_id |-> e.vcs[1]])
    IN  IF r.type # "document" THEN Result(st, TRUE, FALSE, rq)
        ELSE Result(IF e.ssh = <<>> THEN vcs ELSE Merge(vcs, [ssh_id |-> e.ssh[1]]),
                    FALSE, FALSE, rq)

ModuleCreateAction ==
    /\ Creatable("module")
    /\ \E pl \in ModulePlans, r \in ModuleResponses :
           Handled("module", "Create", NoState, pl, <<r>>, ModuleCreate(pl, r))

ModuleReadAction ==
    /\ Managed("module")
    /\ \E r \in ModuleResponses :
           Handled("module", "Read", tf, NoState, <<r>>, ModuleRead(tf, r))

TeamFlags ==
    {"manage_workspace", "manage_module", "manage_provider", "manage_vcs", "manage_template"}

TeamPlans ==
    {[a \in {"organization_id", "name"} \cup TeamFlags |->
         CASE a = "organization_id" -> OrgId
           [] a = "name" -> <<"n">>
           [] a = "manage_workspace" -> w
           [] a = "manage_vcs" -> v
           [] a = "manage_template" -> t
           [] OTHER -> FALSE] : w \in BOOLEAN, v \in BOOLEAN, t \in BOOLEAN}

\* the TeamEntity documents the server may answer with
TeamDocuments ==
    [id : ServerIds, name : {<<"n">>, <<"m">>}, manageWorkspace : {TRUE},
     manageModule : {FALSE}, manageProvider : {FALSE}, manageVcs : BOOLEAN,
     manageTemplate : BOOLEAN]

TeamResponses == {TransportError, BadBody} \cup {Document(d) : d \in TeamDocuments}

TeamCollectionPath(st) ==
    <<Lit("api"), Lit("v1"), Lit("organization"), ValueString(st, "organization_id"),
      Lit("team")>>

\* the body of Create and Update: ManageVcs is set from the plan's manage_template
TeamBody(pl, id, name) ==
    [id |-> id, name |-> name,
     manageWorkspace |-> pl["manage_workspace"], manageModule |-> pl["manage_module"],
     manageProvider |-> pl["manage_provider"], manageTemplate |-> pl["manage_template"],
     manageVcs |-> pl["manage_template"]]

\* the five permissions of the entity, as the handlers copy them into the model
TeamPermissions(e) ==
    [manage_workspace |-> e.manageWorkspace, manage_module |-> e.manageModule,
     manage_vcs |-> e.manageVcs, manage_provider |-> e.manageProvider,
     manage_template |-> e.manageTemplate]

TeamCreate(pl, r) ==
    LET rq == <<Request("POST", TeamCollectionPath(pl),
                        TeamBody(pl, <<>>, ValueString(pl, "name")))>>
    IN  IF r.type # "document" THEN Result(NoState, TRUE, FALSE, rq)
        ELSE Result(Merge(Merge(pl, TeamPermissions(r.data)),
                          [id |-> r.data.id, name |-> r.data.name]), FALSE, FALSE, rq)

\* Read copies the permissions; the name and the id of the state are kept
TeamRead(st, r) ==
    LET rq == <<Request("GET", TeamCollectionPath(st) \o <<ValueString(st, "id")>>, NoBody)>>
    IN  IF r.type # "document" THEN Result(st, TRUE, FALSE, rq)
        ELSE Result(Merge(st, TeamPermissions(r.data)), FALSE, FALSE, rq)

\* rs is <<PATCH response>> or <<PATCH response, GET response>>
TeamUpdate(st, pl, rs) ==
    LET path == TeamCollectionPath(st) \o <<ValueString(st, "id")>>
        patch == Request("PATCH", path,
                         TeamBody(pl, ValueString(st, "id"), ValueString(st, "name")))
        get == Request("GET", path, NoBody)
    IN  IF rs[1].type = "transport_error" THEN Result(st, TRUE, FALSE, <<patch>>)
        ELSE IF rs[2].type # "document" THEN Result(st, TRUE, FALSE, <<patch, get>>)
        ELSE Result(Merge(Merge(pl, TeamPermissions(rs[2].data)),
                          [id |-> ValueString(st, "id"), name |-> ValueString(st, "name")]),
                    FALSE, FALSE, <<patch, get>>)

TeamCreateAction ==
    /\ Creatable("team")
    /\ \E pl \in TeamPlans, r \in TeamResponses :
           Handled("team", "Create", NoState, pl, <<r>>, TeamCreate(pl, r))

TeamReadAction ==
    /\ Managed("team")
    /\ \E r \in TeamResponses :
           Handled("team", "Read", tf, NoState, <<r>>, TeamRead(tf, r))

TeamUpdateAction ==
    /\ Managed("team")
    /\ \E pl \in TeamPlans, rs \in UpdateResponses(TeamResponses) :
           Handled("team", "Update", tf, pl, rs, TeamUpdate(tf, pl, rs))

RegNext ==
    \/ ModuleCreateAction
    \/ ModuleReadAction
    \/ TeamCreateAction
    \/ TeamReadAction
    \/ TeamUpdateAction

SpecReg == Init /\ [][RegNext]_vars

\* C22: the body of a module's Create carries every optional attribute the
\* plan sets, with the plan's value (folder, tag_prefix, and the VCS and SSH
\* relations), and carries a relation only when the plan sets its id.
C22_CreateBodyCarriesOptionals ==
    (op = "Create" /\ kind = "module") =>
        /\ reqs[1].body.folder = ValueStringPointer(plan, "folder")
        /\ reqs[1].body.tagPrefix = ValueStringPointer(plan, "tag_prefix")
        /\ reqs[1].body.vcs = ValueStringPointer(plan, "vcs_id")
        /\ reqs[1].body.ssh = ValueStringPointer(plan, "ssh_id")

\* C23: after a successful Read every attribute tracked in the state, the
\* identifier path keys and preserved secrets apart, has the value of the
\* server's response (for a team: the name and the five permissions).
C23_ReadStoresResponse ==
    (op = "Read" /\ kind = "team" /\ ~diag /\ ~crashed) =>
        /\ ValueString(tf, "name") = resps[1].data.name
        /\ \A a \in TeamFlags : tf[a] = TeamPermissions(resps[1].data)[a]

\* C27: in team Create and team Update each permission sent to the server
\* takes its value from the plan attribute of the same name.
C27_TeamPermissionsFromPlan ==
    (op \in {"Create", "Update"} /\ kind = "team") =>
        LET body == reqs[1].body
        IN  /\ body.manageWorkspace = plan["manage_workspace"]
            /\ body.manageModule = plan["manage_module"]
            /\ body.manageProvider = plan["manage_provider"]
            /\ body.manageVcs = plan["manage_vcs"]
            /\ body.manageTemplate = plan["manage_template"]

\* C24: Update and Delete of a webhook and of a webhook event are each one
\* atomic operation POSTed to /api/v1/operations (op = update, respectively
\* op = remove); no PATCH and no DELETE request is sent to a webhook path.
C24_WebhookChangesAreAtomicOperations ==
    (op \in {"Update", "Delete"} /\ kind \in {"workspace_webhook_v2", "workspace_webhook_event"}) =>
        \A i \in 1..Len(reqs) :
            /\ reqs[i].method \notin {"PATCH", "DELETE"}
            /\ reqs[i].method = "POST" =>
                   /\ reqs[i].path = OperationsPath
                   /\ reqs[i].body.op = (IF op = "Update" THEN <<"update">> ELSE <<"remove">>)

\* C25: Read of a webhook event issues a GET against the parent webhook's
\* event list (.../webhook/<webhook_id>/events), from whose matching element
\* the stored attributes are set.
C25_EventReadGetsEventList ==
    (op = "Read" /\ kind = "workspace_webhook_event" /\ ~diag /\ tf # NoState) =>
        \E i \in 1..Len(reqs) :
            /\ reqs[i].method = "GET"
            /\ reqs[i].path[Len(reqs[i].path)] = Lit("events")
            /\ ValueString(tf, "webhook_id") = reqs[i].path[Len(reqs[i].path) - 1]

\* the GET that follows the PATCH of Update met a transport error or a body
\* that cannot be decoded
GetFailed ==
    /\ op = "Update"
    /\ Len(resps) = 2
    /\ Len(reqs) = 2
    /\ reqs[1].method = "PATCH"
    /\ reqs[2].method = "GET"
    /\ \/ resps[2].type \in {"transport_error", "bad_body"}
       \/ resps[2].type = "reply" /\ resps[2].data.json = <<>>

\* C26: when the PATCH of an Update succeeds and the GET after it fails,
\* Update ends with an error diagnostic and the stored state is exactly the
\* prior state.
C26_FailedRefetchKeepsPriorState ==
    GetFailed => (diag /\ ~crashed /\ tf = prior)

\* C28: Create, Read and Update of an organization variable end with a
\* persisted state or with an error diagnostic for every well-formed response,
\* one that omits the sensitive attribute included; none of them crashes.
C28_OrganizationVariableNeverCrashes ==
    (/\ kind = "organization_variable"
     /\ op \in {"Create", "Read", "Update"}
     /\ resps # <<>>
     /\ resps[Len(resps)].type = "document") =>
        /\ ~crashed
        /\ diag \/ tf # NoState

\* C29: the PATCH body of the workspace soft delete changes the name and the
\* deleted flag only: description, source, branch, folder, template, IaC type
\* and version and execution mode have the value of the prior state.
C29_SoftDeleteKeepsOtherAttributes ==
    (op = "Delete" /\ kind \in WsKinds /\ reqs # <<>>) =>
        LET body == reqs[1].body
        IN  /\ body.description = ValueString(prior, "description")
            /\ kind # "workspace_cli" =>
                   /\ body.source = ValueString(prior, "repository")
                   /\ body.branch = ValueString(prior, "branch")
            /\ body.folder = ValueString(prior, "folder")
            /\ body.defaultTemplate = ValueString(prior, "template_id")
            /\ body.iacType = ValueString(prior, "iac_type")
            /\ body.terraformVersion = ValueString(prior, "iac_version")
            /\ body.executionMode = ValueString(prior, "execution_mode")

\* the server answered Create with the path and branch strings it was sent
EchoedLists ==
    /\ op = "Create"
    /\ kind = "workspace_webhook"
    /\ ~diag
    /\ ~crashed
    /\ resps[1].data.json[1].path = reqs[1].body.path
    /\ resps[1].data.json[1].branch = reqs[1].body.branch

\* C30: the path and branch lists of a webhook survive the wire encoding:
\* joined with "," for the request and split on "," from the server's string,
\* the state holds the plan's list again, the empty list included.
C30_ListsSurviveWireEncoding ==
    EchoedLists => (tf["path"] = plan["path"] /\ tf["branch"] = plan["branch"])

(***************************************************************************)
(* The provider as a whole: any handler of any resource.                   *)
(***************************************************************************)
Next ==
    \/ VarNext
    \/ ImportNext
    \/ ConnNext
    \/ WsNext
    \/ HookNext
    \/ AccNext
    \/ DataNext
    \/ RegNext

Spec == Init /\ [][Next]_vars
====
